---- MODULE Spec2Model ----
\* A model of the local executor (DirectPipelineRunner), the counter registry
\* (utils/counters.py) and the combiners (transforms/combiners.py: Top-K, Sample,
\* Mean, Count, ToList, ToDict, the tuple combiners, currying and the phased
\* executor) of the Dataflow Python SDK.
EXTENDS Integers, Sequences, FiniteSets, TLC

VARIABLES
  pipeline,        \* the transforms' parameters: Create.value, the source's data, the view
  cache,           \* DirectPipelineRunner._cache: (node, tag) -> cached value
  element_counts,  \* DirectPipelineRunner.debug_counters['element_counts']
  counters,        \* DirectPipelineRunner._counter_factory.counters: name -> Counter
  sink,            \* the payloads the sink's writer was given, in order
  reads,           \* how many times a reader of the source was acquired
  dofn_log,        \* the calls run_ParDo made on the DoFnRunner and then on the cache
  state,           \* "idle", "running", "done" (PipelineState.DONE) or "failed"
  error,           \* the exception that ended the last failed run, or "none"
  walk_pos,        \* position of the walk in TopoOrder
  runs,            \* how many times run(pipeline) was called
  evaluated,       \* history: the nodes whose rule body has run to its end
  io_log,          \* the calls made on the reader or writer of the last rule that got one
  cache_writes,    \* history: per cache key, how many elements the rules have written to it
  top_n,           \* TopCombineFn._n
  top_compare,     \* TopCombineFn._compare
  top_heaps,       \* the accumulators of the TopCombineFn that are in use
  top_hist,        \* history: per accumulator, the stream it was built from
  top_adds,        \* how many add_input calls were made
  top_out,         \* the result of extract_output, when it was the last call made
  combine_fn,      \* the CombineFn in use: its class, sub-combiners and curried arguments
  comb_accs,       \* the accumulators of combine_fn that are in use
  comb_hist,       \* history: per accumulator, the batches it was built from
  comb_adds,       \* how many input elements were added
  comb_out,        \* the result of the last call, when it was an extract or a full combine
  ctr_call,        \* the last call made on the counter registry or on a counter
  ctr_refs,        \* history: the counters get_aggregator_counter has returned
  ctr_given,       \* history: per counter, the sum and the number of the deltas given to update
  overflowcheck,   \* whether the counters module runs compiled, with c_total a C long
  lock,            \* CounterFactory._lock of a factory threads share: 0, or the thread holding it
  threads,         \* per thread, the call it is in, its position in it and its locals
  registry,        \* CounterFactory.counters of that factory: name -> counter object
  objects,         \* the Counter objects constructed, an object's identity being its index
  th_hist          \* history: references returned, collections returned, deltas given

runner_vars == <<pipeline, cache, element_counts, counters, sink, reads, dofn_log,
                 state, error, walk_pos, runs, evaluated, io_log, cache_writes>>
top_vars == <<top_n, top_compare, top_heaps, top_hist, top_adds, top_out>>
comb_vars == <<combine_fn, comb_accs, comb_hist, comb_adds, comb_out>>
ctr_vars == <<ctr_call, ctr_refs, ctr_given, overflowcheck>>
thr_vars == <<lock, threads, registry, objects, th_hist>>

vars == <<pipeline, cache, element_counts, counters, sink, reads, dofn_log,
          state, error, walk_pos, runs, evaluated, io_log, cache_writes,
          top_n, top_compare, top_heaps, top_hist, top_adds, top_out,
          combine_fn, comb_accs, comb_hist, comb_adds, comb_out,
          ctr_call, ctr_refs, ctr_given, overflowcheck,
          lock, threads, registry, objects, th_hist>>

\* ------------------------------------------------------------------ bounds
MaxLen == 3       \* longest Create.value
MaxSrc == 2       \* longest source
MaxElems == 3     \* elements of Create.value and the source of one pipeline together
MaxRuns == 2      \* calls of run(pipeline) on one runner
LongBits == 4     \* width of Counter.c_total (a C long, scaled down)
MaxK == 2         \* largest n of a TopCombineFn
MaxStream == 3    \* add_input calls on one TopCombineFn
MaxAccs == 2      \* accumulators of one TopCombineFn in use at a time
MaxInput == 3     \* elements fed to one combiner
MaxParts == 2     \* accumulators of one combiner in use at a time
MaxBatch == 2     \* longest batch given to add_inputs
MaxCounters == 2  \* counters in one registry
MaxUpdates == 2   \* update calls on the counters of one registry
MaxThreads == 2   \* threads that share one CounterFactory
MaxThreadCalls == 3  \* calls the threads make on the factory and its counters, in all

\* ------------------------------------------------------------------ values
\* A payload is a Python value: iter says whether it is a collections.Iterable
\* (with a len()), items are its elements (a non-iterable holds itself).
Pair(k, v) == [iter |-> TRUE, items |-> <<k, v>>]
Triple(a, b, c) == [iter |-> TRUE, items |-> <<a, b, c>>]
Scalar(x) == [iter |-> FALSE, items |-> <<x>>]

\* GlobalWindows.WindowedValue(v); windowed = FALSE is an object that is not an
\* instance of WindowedValue.
WindowedValue(v) == [windowed |-> TRUE, value |-> v]
RawValue(v) == [windowed |-> FALSE, value |-> v]

Range(s) == {s[i] : i \in DOMAIN s}
SeqsUpTo(S, n) == UNION {[1..k -> S] : k \in 0..n}
Values(wvs) == [i \in DOMAIN wvs |-> wvs[i].value]
Wrap(vs) == [i \in DOMAIN vs |-> WindowedValue(vs[i])]
Perms(S) == {f \in [1..Cardinality(S) -> S] : \A i, j \in DOMAIN f : f[i] = f[j] => i = j}

\* What the cache holds: a materialized collection (a list of windowed values),
\* a list of payloads (iterable and list views), one payload (singleton view) or
\* the EmptySideInput marker.
PColl(wvs) == [kind |-> "pcoll", items |-> wvs]
ListOf(vs) == [kind |-> "list", items |-> vs]
OneValue(v) == [kind |-> "value", items |-> <<v>>]
EmptySideInput == [kind |-> "EmptySideInput", items |-> <<>>]

\* ------------------------------------------------------------------ the pipeline
CreatePayloads ==
  {Pair("a", "1"), Pair("b", "2"), Pair("a", "3"), Scalar("x"), Triple("a", "1", "2")}
SourcePayloads == {Pair("a", "1"), Scalar("x")}
DefaultValue == Scalar("d")
Views ==
  {[kind |-> "singleton", has_default |-> FALSE, default_value |-> Scalar("None")],
   [kind |-> "singleton", has_default |-> TRUE, default_value |-> DefaultValue],
   [kind |-> "iterable", has_default |-> FALSE, default_value |-> Scalar("None")],
   [kind |-> "list", has_default |-> FALSE, default_value |-> Scalar("None")],
   [kind |-> "dict", has_default |-> FALSE, default_value |-> Scalar("None")]}

Nodes == {"create", "read", "gbk", "flatten", "write", "view", "pardo"}
TopoOrder == <<"create", "read", "gbk", "flatten", "write", "view", "pardo">>

Inputs(n) ==
  CASE n = "gbk" -> <<"create">>
    [] n = "flatten" -> <<"create", "read", "create">>
    [] n = "write" -> <<"flatten">>
    [] n = "view" -> <<"read">>
    [] n = "pardo" -> <<"flatten">>
    [] OTHER -> <<>>
SideInputs(n) == IF n = "pardo" THEN <<"view">> ELSE <<>>
side_output_tags == {"scalar"}
full_label(n) == n

\* ------------------------------------------------------------------ PValueCache
MainTag == "None"
to_cache_key(node, tag) == <<node, tag>>
is_cached(c, node) == to_cache_key(node, MainTag) \in DOMAIN c
get_pvalue(c, node) == c[to_cache_key(node, MainTag)]
cache_output(c, node, tag, value) ==
  [k \in DOMAIN c \cup {to_cache_key(node, tag)} |->
     IF k = to_cache_key(node, tag) THEN value ELSE c[k]]
EmptyCache == [k \in {} |-> PColl(<<>>)]
\* How many elements a cached value holds: the length of a collection or a
\* list, one for a single value, none for the empty-side-input marker.
Size(value) ==
  IF value.kind \in {"pcoll", "list"} THEN Len(value.items)
  ELSE IF value.kind = "value" THEN 1 ELSE 0

\* The caches a runner may be constructed with (DirectPipelineRunner(cache=...)).
InitialCaches ==
  {EmptyCache,
   cache_output(EmptyCache, "write", MainTag, PColl(<<>>)),
   cache_output(EmptyCache, "create", MainTag, PColl(<<RawValue(Pair("a", "1"))>>))}

\* ------------------------------------------------------------------ counters
SUM == 1
MEAN == 4
USER_COUNTER_PREFIX == "user-"

Counter(name, aggregation_kind, is_aggregator) ==
  [name |-> name, aggregation_kind |-> aggregation_kind, c_total |-> 0,
   py_total |-> 0, elements |-> 0, aggregator |-> is_aggregator]

\* Counter.update with _update_small, run as the Python module it is:
\* self.c_total + delta is an addition of Python integers, which grows to a long
\* and never raises OverflowError, so the except branch is never taken and
\* py_total stays as it is.
Overflows(c, delta) == FALSE
update(c, delta) ==
  IF Overflows(c, delta)
  THEN [c EXCEPT !.py_total = @ + delta, !.elements = @ + 1]
  ELSE [c EXCEPT !.c_total = @ + delta, !.elements = @ + 1]
\* The module compiled as its header asks ("# cython: overflowcheck=True") with
\* c_total declared a C long: the declaration file is not part of the sources,
\* so this build follows the specification's "fast bounded-integer path" with an
\* "unbounded accumulation path on arithmetic overflow". The long is scaled down
\* to LongBits bits.
CLongMax == 2 ^ (LongBits - 1) - 1
CLongMin == - (2 ^ (LongBits - 1))
Overflows_long(c, delta) == c.c_total + delta > CLongMax \/ c.c_total + delta < CLongMin
update_long(c, delta) ==
  IF Overflows_long(c, delta)
  THEN [c EXCEPT !.py_total = @ + delta, !.elements = @ + 1]
  ELSE [c EXCEPT !.c_total = @ + delta, !.elements = @ + 1]
\* A faulty total that leaves out what went to py_total.
total_c_only(c) == c.c_total
total(c) == c.c_total + c.py_total

AggregatorCounterName(step_name, aggregator_name) ==
  USER_COUNTER_PREFIX \o step_name \o "-" \o aggregator_name

\* CounterFactory.get_aggregator_counter: the registry after the call (the
\* assertions hold for every call the executor makes).
get_aggregator_counter(cs, step_name, aggregator) ==
  LET name == AggregatorCounterName(step_name, aggregator.name) IN
  IF name \in DOMAIN cs THEN cs
  ELSE [k \in DOMAIN cs \cup {name} |->
          IF k = name THEN Counter(name, aggregator.aggregation_kind, TRUE) ELSE cs[k]]

NoCounters == [k \in {} |-> Counter("", SUM, FALSE)]
NoCall == [op |-> "none"]

\* ------------------------------------------------------------------ the executor
Current == TopoOrder[walk_pos]
Running(n) == state = "running" /\ walk_pos <= Len(TopoOrder) /\ Current = n
Advance == walk_pos' = walk_pos + 1 /\ state' = state /\ error' = error
\* A faulty run that goes on to the next node when a rule raises.
Abort_continuing(e) == state' = state /\ error' = e /\ walk_pos' = walk_pos + 1
\* A rule raises: the exception leaves run(), which returns no result.
Abort(e) == state' = "failed" /\ error' = e /\ walk_pos' = walk_pos
Incr(ec, key, by) ==
  [k \in DOMAIN ec \cup {key} |->
     IF k = key THEN (IF k \in DOMAIN ec THEN ec[k] ELSE 0) + by ELSE ec[k]]
CountOf(ec, key) == IF key \in DOMAIN ec THEN ec[key] ELSE 0
LabelKey(n) == <<full_label(n), "-">>
TagKey(n, tag) == <<full_label(n), tag>>

\* A faulty decorator that never skips.
skip_if_cached_never(c, n) == FALSE
\* skip_if_cached: the wrapped rule is not run when the node is in the cache.
skip_if_cached(c, n) == is_cached(c, n)

\* A rule that is skipped, or that raises before its first effect.
NoEffect ==
  UNCHANGED <<cache, element_counts, counters, sink, reads, dofn_log, evaluated,
              cache_writes>>

run_Create(n) ==
  /\ Running(n)
  /\ IF skip_if_cached(cache, n)
     THEN NoEffect /\ Advance
     ELSE LET create_result == Wrap(pipeline.value) IN
          /\ element_counts' = Incr(element_counts, LabelKey(n), Len(create_result))
          /\ cache' = cache_output(cache, n, MainTag, PColl(create_result))
          /\ cache_writes' = Incr(cache_writes, to_cache_key(n, MainTag), Len(create_result))
          /\ evaluated' = evaluated \cup {n}
          /\ UNCHANGED <<counters, sink, reads, dofn_log>>
          /\ Advance
  /\ UNCHANGED <<pipeline, runs, io_log>>
  /\ UNCHANGED top_vars
  /\ UNCHANGED comb_vars
  /\ UNCHANGED ctr_vars
  /\ UNCHANGED thr_vars

\* What can go wrong with the source and the sink of a pipeline: nothing; the
\* reader raises IOError instead of yielding its last element; cache_output
\* raises when it is given what was read; the writer raises IOError at the first
\* Write.
Faults == {"none", "read", "cache", "write"}
NoIO == [rule |-> "none", events |-> <<>>, raised |-> FALSE]
Repeat(n, event) == [i \in 1..n |-> event]
\* A faulty with statement that skips __exit__ when its body raises.
with_leaking(events, raised) ==
  IF raised THEN <<"__enter__">> \o events ELSE <<"__enter__">> \o events \o <<"__exit__">>
\* with source.reader() as reader / with sink.writer() as writer: __enter__,
\* the calls the body makes on the handle, and __exit__ however the body ends.
with(events, raised) == <<"__enter__">> \o events \o <<"__exit__">>

run_Read(n) ==
  /\ Running(n)
  /\ IF skip_if_cached(cache, n)
     THEN NoEffect /\ Advance /\ UNCHANGED io_log
     ELSE LET read_result == Wrap(pipeline.source) IN
          /\ reads' = reads + 1
          /\ IF pipeline.fault = "read" /\ Len(read_result) > 0
             THEN /\ io_log' = [rule |-> n, raised |-> TRUE,
                                events |-> with(Repeat(Len(read_result) - 1, "next"), TRUE)]
                  /\ UNCHANGED <<element_counts, cache, evaluated, cache_writes>>
                  /\ Abort("IOError")
             ELSE /\ io_log' = [rule |-> n, raised |-> pipeline.fault = "cache",
                                events |-> with(Repeat(Len(read_result), "next"),
                                                pipeline.fault = "cache")]
                  /\ element_counts' = Incr(element_counts, LabelKey(n), Len(read_result))
                  /\ IF pipeline.fault = "cache"
                     THEN UNCHANGED <<cache, evaluated, cache_writes>> /\ Abort("IOError")
                     ELSE /\ cache' = cache_output(cache, n, MainTag, PColl(read_result))
                          /\ cache_writes' = Incr(cache_writes, to_cache_key(n, MainTag),
                                                  Len(read_result))
                          /\ evaluated' = evaluated \cup {n}
                          /\ Advance
          /\ UNCHANGED <<counters, sink, dofn_log>>
  /\ UNCHANGED <<pipeline, runs>>
  /\ UNCHANGED top_vars
  /\ UNCHANGED comb_vars
  /\ UNCHANGED ctr_vars
  /\ UNCHANGED thr_vars

\* The key coder (coders.registry.get_coder): keys are grouped by their encoded
\* form and decoded again for the output.
encode(k) == <<"enc", k>>
decode(e) == e[2]

\* A faulty test that does not look at the payload's length.
IsWindowedKV_any_len(wv) == wv.windowed /\ wv.value.iter
\* The test of run_GroupByKeyOnly on one cached element.
IsWindowedKV(wv) == wv.windowed /\ wv.value.iter /\ Len(wv.value.items) = 2

\* A faulty grouping that puts each value in front of its key's list.
RECURSIVE result_dict_prepend(_, _)
result_dict_prepend(wvs, i) ==
  IF i = 0 THEN [e \in {} |-> <<>>]
  ELSE LET d == result_dict_prepend(wvs, i - 1)
           ek == encode(wvs[i].value.items[1])
           v == wvs[i].value.items[2]
       IN [e \in DOMAIN d \cup {ek} |->
             IF e = ek THEN <<v>> \o (IF ek \in DOMAIN d THEN d[ek] ELSE <<>>) ELSE d[e]]
\* result_dict (a defaultdict(list)) after the first i elements of the input.
RECURSIVE result_dict(_, _)
result_dict(wvs, i) ==
  IF i = 0 THEN [e \in {} |-> <<>>]
  ELSE LET d == result_dict(wvs, i - 1)
           ek == encode(wvs[i].value.items[1])
           v == wvs[i].value.items[2]
       IN [e \in DOMAIN d \cup {ek} |->
             IF e = ek THEN (IF ek \in DOMAIN d THEN d[ek] ELSE <<>>) \o <<v>> ELSE d[e]]

\* gbk_result: one windowed (decoded key, values) pair per entry of result_dict,
\* in the dict's iteration order, which is any order of its keys.
gbk_result(d, order) ==
  [i \in DOMAIN order |-> WindowedValue(Pair(decode(order[i]), d[order[i]]))]

\* raise TypeCheckError('... Instead received: %r.' % wv) on the first element
\* that fails the test. An element that is not a WindowedValue but a tuple (the
\* iterable payloads are tuples) is taken by % as the tuple of arguments, and
\* unless it holds exactly one item the formatting raises TypeError before the
\* TypeCheckError is constructed.
raise_TypeCheckError(wv) ==
  IF ~wv.windowed /\ wv.value.iter /\ Len(wv.value.items) # 1
  THEN "TypeError" ELSE "TypeCheckError"

run_GroupByKeyOnly(n) ==
  /\ Running(n)
  /\ IF skip_if_cached(cache, n)
     THEN NoEffect /\ Advance
     ELSE LET wvs == get_pvalue(cache, Inputs(n)[1]).items IN
          IF \E i \in DOMAIN wvs : ~IsWindowedKV(wvs[i])
          THEN LET i == CHOOSE k \in DOMAIN wvs :
                          /\ ~IsWindowedKV(wvs[k])
                          /\ \A j \in 1..(k - 1) : IsWindowedKV(wvs[j])
               IN NoEffect /\ Abort(raise_TypeCheckError(wvs[i]))
          ELSE LET d == result_dict(wvs, Len(wvs)) IN
               \E order \in Perms(DOMAIN d) :
                 /\ element_counts' =
                      Incr(element_counts, LabelKey(n), Len(gbk_result(d, order)))
                 /\ cache' = cache_output(cache, n, MainTag, PColl(gbk_result(d, order)))
                 /\ cache_writes' = Incr(cache_writes, to_cache_key(n, MainTag),
                                         Len(gbk_result(d, order)))
                 /\ evaluated' = evaluated \cup {n}
                 /\ UNCHANGED <<counters, sink, reads, dofn_log>>
                 /\ Advance
  /\ UNCHANGED <<pipeline, runs, io_log>>
  /\ UNCHANGED top_vars
  /\ UNCHANGED comb_vars
  /\ UNCHANGED ctr_vars
  /\ UNCHANGED thr_vars

\* A faulty concatenation that takes a collection listed twice only once.
RECURSIVE chain_once(_, _, _)
chain_once(c, inputs, i) ==
  IF i = 0 THEN <<>>
  ELSE IF \E j \in 1..(i - 1) : inputs[j] = inputs[i] THEN chain_once(c, inputs, i - 1)
  ELSE chain_once(c, inputs, i - 1) \o get_pvalue(c, inputs[i]).items
\* itertools.chain.from_iterable over the cached inputs, in declaration order.
RECURSIVE chain(_, _, _)
chain(c, inputs, i) ==
  IF i = 0 THEN <<>> ELSE chain(c, inputs, i - 1) \o get_pvalue(c, inputs[i]).items

run_Flatten(n) ==
  /\ Running(n)
  /\ IF skip_if_cached(cache, n)
     THEN NoEffect /\ Advance
     ELSE LET flatten_result == chain(cache, Inputs(n), Len(Inputs(n))) IN
          /\ element_counts' = Incr(element_counts, LabelKey(n), Len(flatten_result))
          /\ cache' = cache_output(cache, n, MainTag, PColl(flatten_result))
          /\ cache_writes' = Incr(cache_writes, to_cache_key(n, MainTag), Len(flatten_result))
          /\ evaluated' = evaluated \cup {n}
          /\ UNCHANGED <<counters, sink, reads, dofn_log>>
          /\ Advance
  /\ UNCHANGED <<pipeline, runs, io_log>>
  /\ UNCHANGED top_vars
  /\ UNCHANGED comb_vars
  /\ UNCHANGED ctr_vars
  /\ UNCHANGED thr_vars

\* run__NativeWrite: every cached input value is counted and given to the
\* writer; nothing is put in the cache.
run__NativeWrite(n) ==
  /\ Running(n)
  /\ IF skip_if_cached(cache, n)
     THEN NoEffect /\ Advance /\ UNCHANGED io_log
     ELSE LET wvs == get_pvalue(cache, Inputs(n)[1]).items IN
          /\ IF pipeline.fault = "write" /\ Len(wvs) > 0
             THEN /\ io_log' = [rule |-> n, raised |-> TRUE, events |-> with(<<>>, TRUE)]
                  /\ element_counts' = Incr(element_counts, LabelKey(n), 1)
                  /\ UNCHANGED <<sink, evaluated>>
                  /\ Abort("IOError")
             ELSE /\ io_log' = [rule |-> n, raised |-> FALSE,
                                events |-> with(Repeat(Len(wvs), "Write"), FALSE)]
                  /\ element_counts' = IF Len(wvs) = 0 THEN element_counts
                                        ELSE Incr(element_counts, LabelKey(n), Len(wvs))
                  /\ sink' = sink \o Values(wvs)
                  /\ evaluated' = evaluated \cup {n}
                  /\ Advance
          /\ UNCHANGED <<cache, counters, reads, dofn_log, cache_writes>>
  /\ UNCHANGED <<pipeline, runs>>
  /\ UNCHANGED top_vars
  /\ UNCHANGED comb_vars
  /\ UNCHANGED ctr_vars
  /\ UNCHANGED thr_vars

\* The outcome of run_CreatePCollectionView before the cache is written: the
\* exception raised, or the result to cache.
Returns(result) == [raises |-> "none", result |-> result]
Raises(exception) == [raises |-> exception, result |-> EmptySideInput]

\* A faulty singleton branch that forgets the declared default.
SingletonResult_no_default(view, values) ==
  IF Len(values) = 0 THEN Returns(EmptySideInput)
  ELSE IF Len(values) = 1 THEN Returns(OneValue(values[1].value))
  ELSE Raises("ValueError")
\* A faulty singleton branch that takes the first of several elements.
SingletonResult_first(view, values) ==
  IF Len(values) = 0
  THEN Returns(IF view.has_default THEN OneValue(view.default_value) ELSE EmptySideInput)
  ELSE Returns(OneValue(values[1].value))
SingletonResult(view, values) ==
  IF Len(values) = 0
  THEN Returns(IF view.has_default THEN OneValue(view.default_value) ELSE EmptySideInput)
  ELSE IF Len(values) = 1 THEN Returns(OneValue(values[1].value))
  ELSE Raises("ValueError")

\* A faulty projection that lists the payloads last to first.
ListResult_reversed(values) ==
  Returns(ListOf([i \in DOMAIN values |-> values[Len(values) + 1 - i].value]))
ListResult(values) == Returns(ListOf(Values(values)))

ViewResult(view, values) ==
  IF view.kind = "singleton" THEN SingletonResult(view, values)
  ELSE IF view.kind = "iterable" THEN ListResult(values)
  ELSE IF view.kind = "list" THEN ListResult(values)
  ELSE Raises("NotImplementedError")

run_CreatePCollectionView(n) ==
  /\ Running(n)
  /\ IF skip_if_cached(cache, n)
     THEN NoEffect /\ Advance
     ELSE LET r == ViewResult(pipeline.view, get_pvalue(cache, Inputs(n)[1]).items) IN
          IF r.raises # "none"
          THEN NoEffect /\ Abort(r.raises)
          ELSE /\ cache' = cache_output(cache, n, MainTag, r.result)
               /\ cache_writes' = Incr(cache_writes, to_cache_key(n, MainTag), Size(r.result))
               /\ evaluated' = evaluated \cup {n}
               /\ UNCHANGED <<element_counts, counters, sink, reads, dofn_log>>
               /\ Advance
  /\ UNCHANGED <<pipeline, runs, io_log>>
  /\ UNCHANGED top_vars
  /\ UNCHANGED comb_vars
  /\ UNCHANGED ctr_vars
  /\ UNCHANGED thr_vars

\* The pipeline's DoFn: it counts every element in the aggregator "n", sends a
\* non-iterable payload to the side output "scalar", drops an iterable payload
\* that is in the side input and sends everything else to the main output.
Aggregator == [name |-> "n", aggregation_kind |-> SUM]
DoFnOutputs(wv, side_inputs) ==
  IF ~wv.value.iter THEN <<[tag |-> "scalar", wv |-> wv]>>
  ELSE IF wv.value \in Range(side_inputs[1].items) THEN <<>>
  ELSE <<[tag |-> MainTag, wv |-> wv]>>

\* What the receivers have recorded after the first i calls of runner.process.
RECURSIVE recorded(_, _, _)
recorded(wvs, side_inputs, i) ==
  IF i = 0 THEN <<>>
  ELSE recorded(wvs, side_inputs, i - 1) \o DoFnOutputs(wvs[i], side_inputs)

\* A faulty receiver set that records every element under every tag.
results_of_all(rec, tag) == [i \in DOMAIN rec |-> rec[i].wv]
\* results[tag]: the elements recorded under tag, in order.
results_of(rec, tag) ==
  LET RECURSIVE pick(_)
      pick(i) == IF i = 0 THEN <<>>
                 ELSE IF rec[i].tag = tag THEN pick(i - 1) \o <<rec[i].wv>>
                 ELSE pick(i - 1)
  IN pick(Len(rec))

\* The aggregator counter after i elements were counted.
RECURSIVE aggregate_to(_, _, _)
aggregate_to(cs, step_name, i) ==
  IF i = 0 THEN cs
  ELSE LET before == get_aggregator_counter(aggregate_to(cs, step_name, i - 1),
                                            step_name, Aggregator)
           name == AggregatorCounterName(step_name, Aggregator.name)
       IN [before EXCEPT ![name] = update(@, 1)]

\* A call run_ParDo makes: runner.start(), runner.process(wv), runner.finish()
\* or cache_output(transform_node, tag, ...).
NoWV == WindowedValue(Scalar("-"))
Call(call, wv, tag) == [call |-> call, wv |-> wv, tag |-> tag]
\* A faulty loop that processes the input from its last element to its first.
runner_calls_reversed(wvs) ==
  <<Call("start", NoWV, "-")>>
    \o [i \in DOMAIN wvs |-> Call("process", wvs[Len(wvs) + 1 - i], "-")]
    \o <<Call("finish", NoWV, "-")>>
\* runner.start(), runner.process(v) for every v of the cached input, runner.finish().
runner_calls(wvs) ==
  <<Call("start", NoWV, "-")>>
    \o [i \in DOMAIN wvs |-> Call("process", wvs[i], "-")]
    \o <<Call("finish", NoWV, "-")>>
\* cache_output(transform_node, []) and then one cache_output per tag of results,
\* in the order results.items() gives the tags, which is any order.
cache_calls(order) ==
  <<Call("cache_output", NoWV, MainTag)>>
    \o [i \in DOMAIN order |-> Call("cache_output", NoWV, order[i])]

\* The loop that ends run_ParDo: every tag of results is counted and cached.
RECURSIVE cache_results(_, _, _, _)
cache_results(c, n, rec, tags) ==
  IF tags = {} THEN c
  ELSE LET t == CHOOSE x \in tags : TRUE IN
       cache_results(cache_output(c, n, t, PColl(results_of(rec, t))), n, rec, tags \ {t})
RECURSIVE write_results(_, _, _, _)
write_results(cw, n, rec, tags) ==
  IF tags = {} THEN cw
  ELSE LET t == CHOOSE x \in tags : TRUE IN
       write_results(Incr(cw, to_cache_key(n, t), Len(results_of(rec, t))), n, rec, tags \ {t})
RECURSIVE count_results(_, _, _, _)
count_results(ec, n, rec, tags) ==
  IF tags = {} THEN ec
  ELSE LET t == CHOOSE x \in tags : TRUE IN
       count_results(Incr(ec, TagKey(n, t), Len(results_of(rec, t))), n, rec, tags \ {t})

run_ParDo(n) ==
  /\ Running(n)
  /\ IF skip_if_cached(cache, n)
     THEN NoEffect /\ Advance
     ELSE LET side_inputs == [i \in DOMAIN SideInputs(n) |-> get_pvalue(cache, SideInputs(n)[i])]
              wvs == get_pvalue(cache, Inputs(n)[1]).items
              rec == recorded(wvs, side_inputs, Len(wvs))
              tags == side_output_tags \cup {rec[i].tag : i \in DOMAIN rec}
          IN /\ \E order \in Perms(tags) :
                  dofn_log' = dofn_log \o runner_calls(wvs) \o cache_calls(order)
             /\ counters' = aggregate_to(counters, full_label(n), Len(wvs))
             /\ cache' = cache_results(cache_output(cache, n, MainTag, PColl(<<>>)),
                                       n, rec, tags)
             /\ cache_writes' = write_results(Incr(cache_writes, to_cache_key(n, MainTag), 0),
                                              n, rec, tags)
             /\ element_counts' = count_results(element_counts, n, rec, tags)
             /\ evaluated' = evaluated \cup {n}
             /\ UNCHANGED <<sink, reads>>
             /\ Advance
  /\ UNCHANGED <<pipeline, runs, io_log>>
  /\ UNCHANGED top_vars
  /\ UNCHANGED comb_vars
  /\ UNCHANGED ctr_vars
  /\ UNCHANGED thr_vars

\* The pvalue the owner of the runner clears: the output of the root transform.
ClearedPValues == {to_cache_key("create", MainTag)}
\* clear_pvalue(pvalue), called by the owner of the runner outside a run
\* (before the first, after one that finished or after one that failed; run does
\* not return to its caller in between): the method hands over to the cache,
\* which drops the entry of a pvalue it holds (clearing one it does not hold
\* changes nothing).
clear_pvalue ==
  /\ state \in {"idle", "done", "failed"}
  /\ \E key \in ClearedPValues \cap DOMAIN cache :
       cache' = [k \in DOMAIN cache \ {key} |-> cache[k]]
  /\ UNCHANGED <<pipeline, element_counts, counters, sink, reads, dofn_log, state,
                 error, walk_pos, runs, evaluated, io_log, cache_writes>>
  /\ UNCHANGED top_vars
  /\ UNCHANGED comb_vars
  /\ UNCHANGED ctr_vars
  /\ UNCHANGED thr_vars

\* run(): the walk has visited every node and returns a result with state DONE.
Finish ==
  /\ state = "running"
  /\ walk_pos > Len(TopoOrder)
  /\ state' = "done"
  /\ UNCHANGED <<pipeline, cache, element_counts, counters, sink, reads, dofn_log,
                 error, walk_pos, runs, evaluated, io_log, cache_writes>>
  /\ UNCHANGED top_vars
  /\ UNCHANGED comb_vars
  /\ UNCHANGED ctr_vars
  /\ UNCHANGED thr_vars

StartRun ==
  /\ state \in {"idle", "done", "failed"}
  /\ runs < MaxRuns
  /\ runs' = runs + 1
  /\ state' = "running"
  /\ error' = "none"
  /\ walk_pos' = 1
  /\ UNCHANGED <<pipeline, cache, element_counts, counters, sink, reads, dofn_log,
                 evaluated, io_log, cache_writes>>
  /\ UNCHANGED top_vars
  /\ UNCHANGED comb_vars
  /\ UNCHANGED ctr_vars
  /\ UNCHANGED thr_vars

\* ------------------------------------------------------------------ Top-K combiner
\* The comparators a TopCombineFn is constructed with: Largest (a < b), Smallest
\* (b < a), an order with ties between different items, and one that is no
\* order at all (every item is less than every item, itself included).
StrictWeakOrders == {"lt", "gt", "half"}
Comparators == StrictWeakOrders \cup {"true"}
Elements == {1, 2, 3}

\* _HeapItem.__lt__: the comparator applied to the wrapped items.
HeapItem_lt(cmp, a, b) ==
  CASE cmp = "lt" -> a < b
    [] cmp = "gt" -> b < a
    [] cmp = "half" -> (a \div 2) < (b \div 2)
    [] cmp = "lt_tuple" -> a[1] < b[1] \/ (a[1] = b[1] /\ a[2] < b[2])
    [] OTHER -> TRUE

\* heapq on a list; positions are Python's (from 0), heap[p + 1] is heap[p].
RECURSIVE siftdown_loop(_, _, _, _, _)
siftdown_loop(cmp, heap, startpos, pos, newitem) ==
  IF pos > startpos
  THEN LET parentpos == (pos - 1) \div 2
           parent == heap[parentpos + 1]
       IN IF HeapItem_lt(cmp, newitem, parent)
          THEN siftdown_loop(cmp, [heap EXCEPT ![pos + 1] = parent], startpos, parentpos,
                             newitem)
          ELSE [heap EXCEPT ![pos + 1] = newitem]
  ELSE [heap EXCEPT ![pos + 1] = newitem]
siftdown(cmp, heap, startpos, pos) == siftdown_loop(cmp, heap, startpos, pos, heap[pos + 1])

RECURSIVE siftup_loop(_, _, _, _, _)
siftup_loop(cmp, heap, startpos, pos, newitem) ==
  LET endpos == Len(heap)
      childpos == 2 * pos + 1
      rightpos == childpos + 1
      smaller == IF rightpos < endpos
                    /\ ~HeapItem_lt(cmp, heap[childpos + 1], heap[rightpos + 1])
                 THEN rightpos ELSE childpos
  IN IF childpos < endpos
     THEN siftup_loop(cmp, [heap EXCEPT ![pos + 1] = heap[smaller + 1]], startpos, smaller,
                      newitem)
     ELSE siftdown(cmp, [heap EXCEPT ![pos + 1] = newitem], startpos, pos)
siftup(cmp, heap, pos) == siftup_loop(cmp, heap, pos, pos, heap[pos + 1])

heappush(cmp, heap, item) == siftdown(cmp, Append(heap, item), 0, Len(heap))
heappushpop(cmp, heap, item) ==
  IF Len(heap) > 0 /\ HeapItem_lt(cmp, heap[1], item)
  THEN siftup(cmp, [heap EXCEPT ![1] = item], 0)
  ELSE heap

\* sorted(heap, reverse=True): a stable sort that puts no item before one it is
\* less than; ins places x after the items of the sorted prefix that are not
\* less than it.
RECURSIVE ins(_, _, _)
ins(cmp, sorted, x) ==
  IF sorted = <<>> THEN <<x>>
  ELSE IF HeapItem_lt(cmp, sorted[Len(sorted)], x)
       THEN Append(ins(cmp, SubSeq(sorted, 1, Len(sorted) - 1), x), sorted[Len(sorted)])
       ELSE Append(sorted, x)
RECURSIVE sorted_reverse(_, _, _)
sorted_reverse(cmp, heap, i) ==
  IF i = 0 THEN <<>> ELSE ins(cmp, sorted_reverse(cmp, heap, i - 1), heap[i])

create_accumulator == <<>>
\* A faulty add_input that pushes whatever the size of the heap.
add_input_push(n, cmp, heap, element) == heappush(cmp, heap, element)
add_input(n, cmp, heap, element) ==
  IF Len(heap) < n THEN heappush(cmp, heap, element) ELSE heappushpop(cmp, heap, element)
RECURSIVE merge_loop(_, _, _, _, _)
merge_loop(n, cmp, heap, es, i) ==
  IF i > Len(es) THEN heap
  ELSE merge_loop(n, cmp,
                  IF Len(heap) < n THEN heappush(cmp, heap, es[i])
                  ELSE heappushpop(cmp, heap, es[i]),
                  es, i + 1)
RECURSIVE chain_heaps(_, _)
chain_heaps(heaps, i) == IF i = 0 THEN <<>> ELSE chain_heaps(heaps, i - 1) \o heaps[i]
\* A faulty merge_accumulators that keeps the first accumulator alone.
merge_accumulators_first(n, cmp, heaps) == merge_loop(n, cmp, <<>>, heaps[1], 1)
merge_accumulators(n, cmp, heaps) ==
  merge_loop(n, cmp, <<>>, chain_heaps(heaps, Len(heaps)), 1)
\* A faulty extract_output that lists the items least to greatest.
extract_output_ascending(cmp, heap) ==
  LET s == sorted_reverse(cmp, heap, Len(heap)) IN [i \in DOMAIN s |-> s[Len(s) + 1 - i]]
extract_output(cmp, heap) == sorted_reverse(cmp, heap, Len(heap))

NoHist == [stream |-> <<>>, merged |-> FALSE, parts |-> 1]
NoOut == [stream |-> <<>>, merged |-> FALSE, extracted |-> FALSE, items |-> <<>>]

TopCreate ==
  /\ Len(top_heaps) < MaxAccs
  /\ top_heaps' = Append(top_heaps, create_accumulator)
  /\ top_hist' = Append(top_hist, NoHist)
  /\ top_out' = NoOut
  /\ UNCHANGED <<top_n, top_compare, top_adds>>
  /\ UNCHANGED runner_vars
  /\ UNCHANGED comb_vars
  /\ UNCHANGED ctr_vars
  /\ UNCHANGED thr_vars

\* add_input on the accumulator made last: the partial accumulators are built one
\* after the other, each from the next part of the input.
TopAddInput ==
  /\ top_adds < MaxStream
  /\ top_heaps # <<>>
  /\ \E e \in Elements :
       LET i == Len(top_heaps) IN
       /\ top_heaps' = [top_heaps EXCEPT ![i] = add_input(top_n, top_compare, @, e)]
       /\ top_hist' = [top_hist EXCEPT ![i].stream = Append(@, e)]
  /\ top_adds' = top_adds + 1
  /\ top_out' = NoOut
  /\ UNCHANGED <<top_n, top_compare>>
  /\ UNCHANGED runner_vars
  /\ UNCHANGED comb_vars
  /\ UNCHANGED ctr_vars
  /\ UNCHANGED thr_vars

\* merge_accumulators on the accumulators in use, in some order; the caller keeps
\* the result in their place.
TopMerge ==
  /\ top_heaps # <<>>
  /\ \E order \in Perms(DOMAIN top_heaps) :
       LET heaps == [k \in DOMAIN order |-> top_heaps[order[k]]]
           streams == [k \in DOMAIN order |-> top_hist[order[k]].stream]
       IN /\ top_heaps' = <<merge_accumulators(top_n, top_compare, heaps)>>
          /\ top_hist' = <<[stream |-> chain_heaps(streams, Len(streams)), merged |-> TRUE,
                          parts |-> Len(order)]>>
  /\ top_out' = NoOut
  /\ UNCHANGED <<top_n, top_compare, top_adds>>
  /\ UNCHANGED runner_vars
  /\ UNCHANGED comb_vars
  /\ UNCHANGED ctr_vars
  /\ UNCHANGED thr_vars

TopExtract ==
  /\ \E i \in DOMAIN top_heaps :
       top_out' = [stream |-> top_hist[i].stream, merged |-> top_hist[i].merged,
                   extracted |-> TRUE, items |-> extract_output(top_compare, top_heaps[i])]
  /\ UNCHANGED <<top_n, top_compare, top_heaps, top_hist, top_adds>>
  /\ UNCHANGED runner_vars
  /\ UNCHANGED comb_vars
  /\ UNCHANGED ctr_vars
  /\ UNCHANGED thr_vars

\* ------------------------------------------------------------------ Sample
\* SampleCombineFn: a TopCombineFn with lambda a, b: a < b over (random key,
\* element) tuples, which Python compares key first and element on equal keys
\* ("lt_tuple"). random.random() is a choice from RandomKeys, so keys can tie.
RandomKeys == {0, 1}
SampleElements == {1, 2}
Sample_create_accumulator == create_accumulator
Sample_add_input(n, heap, key, element) == add_input(n, "lt_tuple", heap, <<key, element>>)
Sample_merge_accumulators(n, heaps) == merge_accumulators(n, "lt_tuple", heaps)
\* A faulty extract_output that gives the keys instead of the elements.
Sample_extract_output_keys(heap) ==
  LET s == extract_output("lt_tuple", heap) IN [i \in DOMAIN s |-> s[i][1]]
Sample_extract_output(heap) ==
  LET s == extract_output("lt_tuple", heap) IN [i \in DOMAIN s |-> s[i][2]]

SampleCreate ==
  /\ Len(top_heaps) < MaxAccs
  /\ top_heaps' = Append(top_heaps, Sample_create_accumulator)
  /\ top_hist' = Append(top_hist, NoHist)
  /\ top_out' = NoOut
  /\ UNCHANGED <<top_n, top_compare, top_adds>>
  /\ UNCHANGED runner_vars
  /\ UNCHANGED comb_vars
  /\ UNCHANGED ctr_vars
  /\ UNCHANGED thr_vars

\* add_input on the accumulator made last, with the key random.random() gave.
SampleAddInput ==
  /\ top_adds < MaxStream
  /\ top_heaps # <<>>
  /\ \E e \in SampleElements, key \in RandomKeys :
       LET i == Len(top_heaps) IN
       /\ top_heaps' = [top_heaps EXCEPT ![i] = Sample_add_input(top_n, @, key, e)]
       /\ top_hist' = [top_hist EXCEPT ![i].stream = Append(@, e)]
  /\ top_adds' = top_adds + 1
  /\ top_out' = NoOut
  /\ UNCHANGED <<top_n, top_compare>>
  /\ UNCHANGED runner_vars
  /\ UNCHANGED comb_vars
  /\ UNCHANGED ctr_vars
  /\ UNCHANGED thr_vars

\* merge_accumulators on the accumulators in use, in some order; the caller keeps
\* the result in their place.
SampleMerge ==
  /\ top_heaps # <<>>
  /\ \E order \in Perms(DOMAIN top_heaps) :
       LET heaps == [k \in DOMAIN order |-> top_heaps[order[k]]]
           streams == [k \in DOMAIN order |-> top_hist[order[k]].stream]
       IN /\ top_heaps' = <<Sample_merge_accumulators(top_n, heaps)>>
          /\ top_hist' = <<[stream |-> chain_heaps(streams, Len(streams)), merged |-> TRUE,
                          parts |-> Len(order)]>>
  /\ top_out' = NoOut
  /\ UNCHANGED <<top_n, top_compare, top_adds>>
  /\ UNCHANGED runner_vars
  /\ UNCHANGED comb_vars
  /\ UNCHANGED ctr_vars
  /\ UNCHANGED thr_vars

SampleExtract ==
  /\ \E i \in DOMAIN top_heaps :
       top_out' = [stream |-> top_hist[i].stream, merged |-> top_hist[i].merged,
                   extracted |-> TRUE, items |-> Sample_extract_output(top_heaps[i])]
  /\ UNCHANGED <<top_n, top_compare, top_heaps, top_hist, top_adds>>
  /\ UNCHANGED runner_vars
  /\ UNCHANGED comb_vars
  /\ UNCHANGED ctr_vars
  /\ UNCHANGED thr_vars

\* ------------------------------------------------------------------ numbers
\* A Python number: an int (or long, of any size) or a float (an IEEE double).
\* Its value is huge * 2^1024 + big * 2^53 + small, with big and small far below
\* 2^970; every int below 2^53 is a double, from 2^53 on the doubles are 2, 4,
\* 8, ... apart, and from 2^1024 on there is none, so huge is 0 in a float.
PyInt(n) == [float |-> FALSE, huge |-> 0, big |-> 0, small |-> n]
PyLong(h, n) == [float |-> FALSE, huge |-> h, big |-> 0, small |-> n]
PyFloat(b, s) == [float |-> TRUE, huge |-> 0, big |-> b, small |-> s]
\* A call that raised.
Raised(e) == [raised |-> e]
\* "long int too large to convert to float".
OverflowError == Raised("OverflowError")

\* The distance between neighbouring doubles around hi * 2^53 + lo, hi > 0.
RECURSIVE pow2_below(_)
pow2_below(h) == IF h < 2 THEN 1 ELSE 2 * pow2_below(h \div 2)
Spacing(hi, lo) ==
  LET h == IF lo < 0 THEN hi - 1 ELSE hi
  IN IF h = 0 THEN 1 ELSE 2 * pow2_below(h)
\* The multiple of sp nearest to lo, the even one of the two when lo is half way.
RoundToEven(lo, sp) ==
  LET q == lo \div sp
      r == lo - q * sp
  IN IF 2 * r < sp THEN q * sp
     ELSE IF 2 * r > sp THEN (q + 1) * sp
     ELSE IF q % 2 = 0 THEN q * sp ELSE (q + 1) * sp
\* The double nearest to hi * 2^53 + lo.
to_double(hi, lo) ==
  IF hi = 0 THEN PyFloat(0, lo)
  ELSE IF hi > 0 THEN PyFloat(hi, RoundToEven(lo, Spacing(hi, lo)))
  ELSE PyFloat(hi, 0 - RoundToEven(0 - lo, Spacing(0 - hi, 0 - lo)))
\* float(x): x itself when it is a float, else the double nearest to the int;
\* the conversion of a long of 2^1024 or more raises OverflowError.
as_double(x) ==
  IF x.float THEN x
  ELSE IF x.huge # 0 THEN OverflowError
  ELSE to_double(x.big, x.small)
\* x + y: exact on ints; when one of them is a float the other is converted to a
\* double first (which may raise), and the sum of the two doubles is rounded to
\* the nearest double.
py_add(x, y) ==
  IF x.float \/ y.float
  THEN LET dx == as_double(x)
            dy == as_double(y)
       IN IF dx = OverflowError \/ dy = OverflowError THEN OverflowError
          ELSE to_double(dx.big + dy.big, dx.small + dy.small)
  ELSE [float |-> FALSE, huge |-> x.huge + y.huge, big |-> x.big + y.big,
        small |-> x.small + y.small]
\* sum(xs): the fold of + from the int 0; an addition that raises ends it.
RECURSIVE py_sum(_, _)
py_sum(xs, i) ==
  IF i = 0 THEN PyInt(0)
  ELSE LET s == py_sum(xs, i - 1)
       IN IF s = OverflowError THEN OverflowError ELSE py_add(s, xs[i])
RECURSIVE int_sum(_, _)
int_sum(ns, i) == IF i = 0 THEN 0 ELSE int_sum(ns, i - 1) + ns[i]

RECURSIVE gcd(_, _)
gcd(a, b) == IF b = 0 THEN a ELSE gcd(b, a % b)
\* float('NaN'), and x / float(count) for count > 0: x is converted to a double
\* first, which raises OverflowError for a long of 2^1024 or more, and the result
\* is the double nearest to the quotient of the two doubles, written as that
\* quotient (in lowest terms when x is below 2^53).
NaN == [nan |-> TRUE, big |-> 0, small |-> 0, den |-> 1]
py_truediv(x, count) ==
  LET d == as_double(x) IN
  IF d = OverflowError THEN OverflowError
  ELSE IF d.big = 0
  THEN LET a == IF d.small < 0 THEN 0 - d.small ELSE d.small
           g == gcd(a, count)
       IN [nan |-> FALSE, big |-> 0, small |-> d.small \div g, den |-> count \div g]
  ELSE [nan |-> FALSE, big |-> d.big, small |-> d.small, den |-> count]

\* ------------------------------------------------------------------ combiners
\* MeanCombineFn: the accumulator is (sum_, count). sum_ + element raises when
\* one of the two is a float and the other a long beyond the doubles.
Mean_create_accumulator == <<PyInt(0), 0>>
Mean_add_input(acc, element) ==
  LET s == py_add(acc[1], element)
  IN IF s = OverflowError THEN OverflowError ELSE <<s, acc[2] + 1>>
\* A faulty merge_accumulators that sums the sums and keeps the first count.
Mean_merge_accumulators_count(accumulators) ==
  <<py_sum([i \in DOMAIN accumulators |-> accumulators[i][1]], Len(accumulators)),
    accumulators[1][2]>>
Mean_merge_accumulators(accumulators) ==
  LET sums == [i \in DOMAIN accumulators |-> accumulators[i][1]]
      counts == [i \in DOMAIN accumulators |-> accumulators[i][2]]
      s == py_sum(sums, Len(sums))
  IN IF accumulators = <<>> THEN Raised("ValueError")
     ELSE IF s = OverflowError THEN OverflowError
     ELSE <<s, int_sum(counts, Len(counts))>>
\* A faulty extract_output that gives 0.0 when nothing was added.
Mean_extract_output_zero(acc) ==
  IF acc[2] = 0 THEN py_truediv(PyInt(0), 1) ELSE py_truediv(acc[1], acc[2])
Mean_extract_output(acc) == IF acc[2] = 0 THEN NaN ELSE py_truediv(acc[1], acc[2])

\* CountCombineFn: the accumulator is an int.
Count_create_accumulator == 0
\* A faulty add_inputs that counts a batch as one element.
Count_add_inputs_one(accumulator, elements) == accumulator + 1
Count_add_inputs(accumulator, elements) == accumulator + Len(elements)
Count_merge_accumulators(accumulators) == int_sum(accumulators, Len(accumulators))
Count_extract_output(accumulator) == accumulator

\* ToListCombineFn: the accumulator is a list.
ToList_create_accumulator == <<>>
ToList_add_input(accumulator, element) == Append(accumulator, element)
\* A faulty merge_accumulators that puts the later accumulators first.
RECURSIVE ToList_merge_accumulators_reversed(_, _)
ToList_merge_accumulators_reversed(accumulators, i) ==
  IF i = 0 THEN <<>>
  ELSE accumulators[i] \o ToList_merge_accumulators_reversed(accumulators, i - 1)
RECURSIVE ToList_merge_accumulators(_, _)
ToList_merge_accumulators(accumulators, i) ==
  IF i = 0 THEN <<>> ELSE ToList_merge_accumulators(accumulators, i - 1) \o accumulators[i]
ToList_extract_output(accumulator) == accumulator

\* ToDictCombineFn: the accumulator is a dict, here a function on its keys.
ToDict_create_accumulator == [k \in {} |-> 0]
dict_set(d, key, value) == [k \in DOMAIN d \cup {key} |-> IF k = key THEN value ELSE d[k]]
\* A faulty dict.update that keeps the value a key already has.
dict_update_keep(d, a) ==
  [k \in DOMAIN d \cup DOMAIN a |-> IF k \in DOMAIN d THEN d[k] ELSE a[k]]
dict_update(d, a) == [k \in DOMAIN d \cup DOMAIN a |-> IF k \in DOMAIN a THEN a[k] ELSE d[k]]
ToDict_add_input(accumulator, element) == dict_set(accumulator, element[1], element[2])
RECURSIVE ToDict_merge_accumulators(_, _)
ToDict_merge_accumulators(accumulators, i) ==
  IF i = 0 THEN ToDict_create_accumulator
  ELSE dict_update(ToDict_merge_accumulators(accumulators, i - 1), accumulators[i])
ToDict_extract_output(accumulator) == accumulator

\* The methods of a combiner class that takes no extra arguments; add_inputs is
\* CombineFn's fold of add_input unless the class has its own, and CountCombineFn
\* has no add_input but CombineFn's, which raises.
cls_create_accumulator(cls) ==
  CASE cls = "MeanCombineFn" -> Mean_create_accumulator
    [] cls = "CountCombineFn" -> Count_create_accumulator
    [] cls = "ToListCombineFn" -> ToList_create_accumulator
    [] cls = "ToDictCombineFn" -> ToDict_create_accumulator
cls_add_input(cls, accumulator, element) ==
  CASE cls = "MeanCombineFn" -> Mean_add_input(accumulator, element)
    [] cls = "CountCombineFn" -> Raised("NotImplementedError")
    [] cls = "ToListCombineFn" -> ToList_add_input(accumulator, element)
    [] cls = "ToDictCombineFn" -> ToDict_add_input(accumulator, element)
RECURSIVE CombineFn_add_inputs(_, _, _, _)
CombineFn_add_inputs(cls, accumulator, elements, i) ==
  IF i = 0 THEN accumulator
  ELSE LET a == CombineFn_add_inputs(cls, accumulator, elements, i - 1)
       IN IF cls = "MeanCombineFn" /\ a = OverflowError THEN OverflowError
          ELSE cls_add_input(cls, a, elements[i])
cls_add_inputs(cls, accumulator, elements) ==
  IF cls = "CountCombineFn" THEN Count_add_inputs(accumulator, elements)
  ELSE CombineFn_add_inputs(cls, accumulator, elements, Len(elements))
cls_merge_accumulators(cls, accumulators) ==
  CASE cls = "MeanCombineFn" -> Mean_merge_accumulators(accumulators)
    [] cls = "CountCombineFn" -> Count_merge_accumulators(accumulators)
    [] cls = "ToListCombineFn" -> ToList_merge_accumulators(accumulators, Len(accumulators))
    [] cls = "ToDictCombineFn" -> ToDict_merge_accumulators(accumulators, Len(accumulators))
cls_extract_output(cls, accumulator) ==
  CASE cls = "MeanCombineFn" -> Mean_extract_output(accumulator)
    [] cls = "CountCombineFn" -> Count_extract_output(accumulator)
    [] cls = "ToListCombineFn" -> ToList_extract_output(accumulator)
    [] cls = "ToDictCombineFn" -> ToDict_extract_output(accumulator)

\* zip(*rows): the columns of rows, as many as the shortest row has items, none
\* when there is no row; zip(a, b, ...) stops with its shortest argument.
MinLen(rows) ==
  IF rows = <<>> THEN 0
  ELSE CHOOSE m \in {Len(rows[i]) : i \in DOMAIN rows} :
         \A i \in DOMAIN rows : m <= Len(rows[i])
zip_star(rows) == [j \in 1..MinLen(rows) |-> [i \in DOMAIN rows |-> rows[i][j]]]

\* _TupleCombineFnBase and its two subclasses; combiners is self._combiners.
Tuple_create_accumulator(combiners) ==
  [j \in DOMAIN combiners |-> cls_create_accumulator(combiners[j])]
Tuple_merge_accumulators(combiners, accumulators) ==
  LET cols == zip_star(accumulators)
  IN [j \in 1..MinLen(<<combiners, cols>>) |-> cls_merge_accumulators(combiners[j], cols[j])]
Tuple_extract_output(combiners, accumulator) ==
  [j \in 1..MinLen(<<combiners, accumulator>>) |->
     cls_extract_output(combiners[j], accumulator[j])]
Tuple_add_inputs(combiners, accumulator, elements) ==
  LET cols == zip_star(elements)
  IN [j \in 1..MinLen(<<combiners, accumulator, cols>>) |->
        cls_add_inputs(combiners[j], accumulator[j], cols[j])]
SingleInputTuple_add_inputs(combiners, accumulator, elements) ==
  [j \in 1..MinLen(<<combiners, accumulator>>) |->
     cls_add_inputs(combiners[j], accumulator[j], elements)]

\* A combiner object: its class, self._combiners of a tuple combiner, and self._n
\* and self._compare of a TopCombineFn.
Fn(cls) == [cls |-> cls, combiners |-> <<>>, n |-> 0, compare |-> "none"]
TupleFn(cls, combiners) == [cls |-> cls, combiners |-> combiners, n |-> 0, compare |-> "none"]
TopFn(n, compare) == [cls |-> "TopCombineFn", combiners |-> <<>>, n |-> n, compare |-> compare]
\* TupleCombineFn.with_common_input.
with_common_input(fn) == TupleFn("SingleInputTupleCombineFn", fn.combiners)

\* The comparator "div" is lambda a, b, d=1: a // d < b // d, which takes one
\* extra argument; the items compare as under "half" when d is 2 and as under "lt"
\* when d is 1 or left out.
BoundCompare(compare, args) ==
  IF compare = "div" THEN (IF args = <<2>> THEN "half" ELSE "lt") ELSE compare
\* Only TopCombineFn's methods take extra arguments (*args).
TakesArgs(fn) == fn.cls = "TopCombineFn"
RECURSIVE Top_add_inputs(_, _, _, _, _)
Top_add_inputs(n, cmp, heap, elements, i) ==
  IF i = 0 THEN heap
  ELSE add_input(n, cmp, Top_add_inputs(n, cmp, heap, elements, i - 1), elements[i])

\* fn.create_accumulator(*args), fn.add_input(accumulator, element, *args), ...
fn_create_accumulator(fn, args) ==
  IF args # <<>> /\ ~TakesArgs(fn) THEN Raised("TypeError")
  ELSE CASE fn.cls = "TopCombineFn" -> create_accumulator
         [] fn.cls \in {"TupleCombineFn", "SingleInputTupleCombineFn"} ->
              Tuple_create_accumulator(fn.combiners)
         [] OTHER -> cls_create_accumulator(fn.cls)
fn_add_input(fn, accumulator, element, args) ==
  IF args # <<>> /\ ~TakesArgs(fn) THEN Raised("TypeError")
  ELSE CASE fn.cls = "TopCombineFn" ->
              add_input(fn.n, BoundCompare(fn.compare, args), accumulator, element)
         [] fn.cls \in {"TupleCombineFn", "SingleInputTupleCombineFn"} ->
              Raised("NotImplementedError")
         [] OTHER -> cls_add_input(fn.cls, accumulator, element)
fn_add_inputs(fn, accumulator, elements, args) ==
  IF args # <<>> /\ ~TakesArgs(fn) THEN Raised("TypeError")
  ELSE CASE fn.cls = "TopCombineFn" ->
              Top_add_inputs(fn.n, BoundCompare(fn.compare, args), accumulator, elements,
                             Len(elements))
         [] fn.cls = "TupleCombineFn" ->
              Tuple_add_inputs(fn.combiners, accumulator, elements)
         [] fn.cls = "SingleInputTupleCombineFn" ->
              SingleInputTuple_add_inputs(fn.combiners, accumulator, elements)
         [] OTHER -> cls_add_inputs(fn.cls, accumulator, elements)
fn_merge_accumulators(fn, accumulators, args) ==
  IF args # <<>> /\ ~TakesArgs(fn) THEN Raised("TypeError")
  ELSE CASE fn.cls = "TopCombineFn" ->
              merge_accumulators(fn.n, BoundCompare(fn.compare, args), accumulators)
         [] fn.cls \in {"TupleCombineFn", "SingleInputTupleCombineFn"} ->
              Tuple_merge_accumulators(fn.combiners, accumulators)
         [] OTHER -> cls_merge_accumulators(fn.cls, accumulators)
fn_extract_output(fn, accumulator, args) ==
  IF args # <<>> /\ ~TakesArgs(fn) THEN Raised("TypeError")
  ELSE CASE fn.cls = "TopCombineFn" ->
              extract_output(BoundCompare(fn.compare, args), accumulator)
         [] fn.cls \in {"TupleCombineFn", "SingleInputTupleCombineFn"} ->
              Tuple_extract_output(fn.combiners, accumulator)
         [] OTHER -> cls_extract_output(fn.cls, accumulator)
\* CombineFn.apply(elements, *args): create, add_inputs, extract.
fn_apply(fn, elements, args) ==
  IF args # <<>> /\ ~TakesArgs(fn) THEN Raised("TypeError")
  ELSE LET accumulator == fn_add_inputs(fn, fn_create_accumulator(fn, args), elements, args)
       IN IF fn.cls = "MeanCombineFn" /\ accumulator = OverflowError THEN OverflowError
          ELSE fn_extract_output(fn, accumulator, args)

\* curry_combine_fn(fn, args, kwargs): fn itself when there is nothing to bind,
\* else a CurriedFn that closes over fn and args.
curry_combine_fn(fn, args) ==
  IF args = <<>> THEN [curried |-> FALSE, fn |-> fn, args |-> <<>>]
  ELSE [curried |-> TRUE, fn |-> fn, args |-> args]
\* The methods of what curry_combine_fn returned.
CurriedFn_create_accumulator(cfn) == fn_create_accumulator(cfn.fn, cfn.args)
CurriedFn_add_input(cfn, accumulator, element) ==
  fn_add_input(cfn.fn, accumulator, element, cfn.args)
\* A faulty CurriedFn.add_inputs that forwards without the bound arguments.
CurriedFn_add_inputs_bare(cfn, accumulator, elements) ==
  fn_add_inputs(cfn.fn, accumulator, elements, <<>>)
CurriedFn_add_inputs(cfn, accumulator, elements) ==
  fn_add_inputs(cfn.fn, accumulator, elements, cfn.args)
CurriedFn_merge_accumulators(cfn, accumulators) ==
  fn_merge_accumulators(cfn.fn, accumulators, cfn.args)
CurriedFn_extract_output(cfn, accumulator) == fn_extract_output(cfn.fn, accumulator, cfn.args)
CurriedFn_apply(cfn, elements) == fn_apply(cfn.fn, elements, cfn.args)

\* PhasedCombineFnExecutor: what apply is bound to in each phase.
full_combine(cfn, elements) == CurriedFn_apply(cfn, elements)
add_only(cfn, elements) ==
  CurriedFn_add_inputs(cfn, CurriedFn_create_accumulator(cfn), elements)
\* A faulty merge_only that returns the first accumulator.
merge_only_first(cfn, accumulators) == accumulators[1]
merge_only(cfn, accumulators) == CurriedFn_merge_accumulators(cfn, accumulators)
extract_only(cfn, accumulator) == CurriedFn_extract_output(cfn, accumulator)

\* The combiners exercised, each with the extra arguments bound to it.
\* 2, 2**1024, 1.0 and 2.0**53.
MeanElements == {PyInt(2), PyLong(1, 0), PyFloat(0, 1), PyFloat(1, 0)}
Combiners ==
  {[fn |-> Fn(cls), args |-> <<>>] :
     cls \in {"MeanCombineFn", "CountCombineFn", "ToListCombineFn", "ToDictCombineFn"}}
  \cup {[fn |-> TupleFn("TupleCombineFn", <<"MeanCombineFn", "CountCombineFn">>),
         args |-> <<>>],
        [fn |-> with_common_input(TupleFn("TupleCombineFn",
                  <<"CountCombineFn", "ToListCombineFn", "MeanCombineFn">>)),
         args |-> <<>>],
        [fn |-> TopFn(2, "div"), args |-> <<1>>],
        [fn |-> TopFn(2, "div"), args |-> <<2>>]}
\* The elements a combiner is fed.
InputsOf(fn) ==
  CASE fn.cls = "MeanCombineFn" -> MeanElements
    [] fn.cls \in {"CountCombineFn", "ToListCombineFn"} -> {"x", "y"}
    [] fn.cls = "ToDictCombineFn" -> {<<"a", 1>>, <<"a", 2>>, <<"b", 1>>}
    [] fn.cls = "TupleCombineFn" ->
         {<<PyInt(2), "x">>, <<PyFloat(0, 1), "y">>}
    [] fn.cls = "SingleInputTupleCombineFn" -> {PyInt(2), PyInt(4), PyFloat(0, 1)}
    [] fn.cls = "TopCombineFn" -> Elements

\* The batches that can still be fed to the combiner in use.
Batches ==
  {b \in SeqsUpTo(InputsOf(combine_fn.fn), MaxBatch) : comb_adds + Len(b) <= MaxInput}

NoCombHist == [stream |-> <<>>, merged |-> FALSE, parts |-> 1]
NoCombOut == [kind |-> "none", stream |-> <<>>, merged |-> FALSE, value |-> <<>>]
\* A call on the combiner in use that raised instead of returning an accumulator
\* (MeanCombineFn on a float and a long beyond the doubles): the caller is left
\* with the accumulators it had.
CallRaised(result) == combine_fn.fn.cls = "MeanCombineFn" /\ result = OverflowError
RaisedOut(stream, result) ==
  [kind |-> "raised", stream |-> stream, merged |-> FALSE, value |-> result]

\* create_accumulator: a new accumulator comes into use.
CombCreate ==
  /\ Len(comb_accs) < MaxParts
  /\ comb_accs' = Append(comb_accs, CurriedFn_create_accumulator(combine_fn))
  /\ comb_hist' = Append(comb_hist, NoCombHist)
  /\ comb_out' = NoCombOut
  /\ UNCHANGED <<combine_fn, comb_adds>>
  /\ UNCHANGED <<runner_vars, top_vars, ctr_vars, thr_vars>>

\* add_inputs of a batch on the accumulator made last.
CombAddInputs ==
  /\ comb_accs # <<>>
  /\ \E elements \in Batches :
       LET i == Len(comb_accs)
           result == CurriedFn_add_inputs(combine_fn, comb_accs[i], elements) IN
       IF CallRaised(result)
       THEN /\ comb_out' = RaisedOut(comb_hist[i].stream \o elements, result)
            /\ UNCHANGED <<comb_accs, comb_hist, comb_adds>>
       ELSE /\ comb_accs' = [comb_accs EXCEPT ![i] = result]
            /\ comb_hist' = [comb_hist EXCEPT ![i].stream = @ \o elements]
            /\ comb_adds' = comb_adds + Len(elements)
            /\ comb_out' = NoCombOut
  /\ UNCHANGED combine_fn
  /\ UNCHANGED <<runner_vars, top_vars, ctr_vars, thr_vars>>

\* PhasedCombineFnExecutor in phase 'add': a batch goes into a new accumulator.
CombAddOnly ==
  /\ Len(comb_accs) < MaxParts
  /\ \E elements \in Batches :
       LET result == add_only(combine_fn, elements) IN
       IF CallRaised(result)
       THEN /\ comb_out' = RaisedOut(elements, result)
            /\ UNCHANGED <<comb_accs, comb_hist, comb_adds>>
       ELSE /\ comb_accs' = Append(comb_accs, result)
            /\ comb_hist' = Append(comb_hist, [NoCombHist EXCEPT !.stream = elements])
            /\ comb_adds' = comb_adds + Len(elements)
            /\ comb_out' = NoCombOut
  /\ UNCHANGED combine_fn
  /\ UNCHANGED <<runner_vars, top_vars, ctr_vars, thr_vars>>

\* Phase 'merge': merge_accumulators on the accumulators in use, in some order;
\* the caller keeps the result in their place.
CombMergeOnly ==
  /\ comb_accs # <<>>
  /\ \E order \in Perms(DOMAIN comb_accs) :
       LET accumulators == [k \in DOMAIN order |-> comb_accs[order[k]]]
           streams == [k \in DOMAIN order |-> comb_hist[order[k]].stream]
           result == merge_only(combine_fn, accumulators)
       IN IF CallRaised(result)
          THEN /\ comb_out' = RaisedOut(chain_heaps(streams, Len(streams)), result)
               /\ UNCHANGED <<comb_accs, comb_hist>>
          ELSE /\ comb_accs' = <<result>>
               /\ comb_hist' = <<[stream |-> chain_heaps(streams, Len(streams)),
                                  merged |-> TRUE, parts |-> Len(order)]>>
               /\ comb_out' = NoCombOut
  /\ UNCHANGED <<combine_fn, comb_adds>>
  /\ UNCHANGED <<runner_vars, top_vars, ctr_vars, thr_vars>>

\* merge_accumulators on objects. objs lists the objects the caller holds, an
\* accumulator is given by its place in objs, and the object a call creates
\* takes the next place; a statement that writes to an object changes objs at
\* its place and nowhere else. What is returned is the object in the last place.
\* TopCombineFn: heap = [], then every item of every heap given, read from the
\* list object as it is when the iterator of itertools.chain gets to it, is
\* pushed into heap.
RECURSIVE Top_merge_loop(_, _, _, _, _, _, _)
Top_merge_loop(n, cmp, objs, heap, heaps, k, j) ==
  IF k > Len(heaps) THEN objs
  ELSE IF j > Len(objs[heaps[k]]) THEN Top_merge_loop(n, cmp, objs, heap, heaps, k + 1, 1)
  ELSE Top_merge_loop(n, cmp,
         [objs EXCEPT ![heap] = IF Len(@) < n THEN heappush(cmp, @, objs[heaps[k]][j])
                                ELSE heappushpop(cmp, @, objs[heaps[k]][j])],
         heap, heaps, k, j + 1)
Top_merge_objects(n, cmp, objs, heaps) ==
  Top_merge_loop(n, cmp, Append(objs, <<>>), Len(objs) + 1, heaps, 1, 1)
\* MeanCombineFn: zip and the two sums read the tuples given, and the result is
\* a new tuple (none when a sum raises).
Mean_merge_objects(objs, accumulators) ==
  Append(objs, Mean_merge_accumulators([k \in DOMAIN accumulators |-> objs[accumulators[k]]]))
\* ToListCombineFn: sum(accumulators, []) starts from a new list and replaces it
\* by result + a, a new list again, for every accumulator a; the place result
\* holds the list the name is bound to.
RECURSIVE ToList_merge_loop(_, _, _, _)
ToList_merge_loop(objs, result, accumulators, k) ==
  IF k > Len(accumulators) THEN objs
  ELSE ToList_merge_loop([objs EXCEPT ![result] = @ \o objs[accumulators[k]]],
                         result, accumulators, k + 1)
ToList_merge_objects(objs, accumulators) ==
  ToList_merge_loop(Append(objs, <<>>), Len(objs) + 1, accumulators, 1)
\* ToDictCombineFn: result = dict(), then result.update(a) for every a.
RECURSIVE ToDict_merge_loop(_, _, _, _)
ToDict_merge_loop(objs, result, accumulators, k) ==
  IF k > Len(accumulators) THEN objs
  ELSE ToDict_merge_loop([objs EXCEPT ![result] = dict_update(@, objs[accumulators[k]])],
                         result, accumulators, k + 1)
ToDict_merge_objects(objs, accumulators) ==
  ToDict_merge_loop(Append(objs, ToDict_create_accumulator), Len(objs) + 1, accumulators, 1)
\* A faulty merge that builds its result in the first accumulator it was given
\* and returns that.
merge_objects_aliased(cfn, objs, accumulators) ==
  LET result == CurriedFn_merge_accumulators(cfn,
                  [k \in DOMAIN accumulators |-> objs[accumulators[k]]])
  IN Append([objs EXCEPT ![accumulators[1]] = result], result)
\* CurriedFn.merge_accumulators on the objects of the caller.
merge_objects(cfn, objs, accumulators) ==
  CASE cfn.fn.cls = "TopCombineFn" ->
         Top_merge_objects(cfn.fn.n, BoundCompare(cfn.fn.compare, cfn.args), objs, accumulators)
    [] cfn.fn.cls = "MeanCombineFn" -> Mean_merge_objects(objs, accumulators)
    [] cfn.fn.cls = "ToListCombineFn" -> ToList_merge_objects(objs, accumulators)
    [] cfn.fn.cls = "ToDictCombineFn" -> ToDict_merge_objects(objs, accumulators)

\* The partial accumulators in use: those that are not the result of a merge.
Partials == {i \in DOMAIN comb_accs : ~comb_hist[i].merged}
RECURSIVE SortedSeq(_)
SortedSeq(S) ==
  IF S = {} THEN <<>>
  ELSE LET m == CHOOSE x \in S : \A y \in S : x <= y IN <<m>> \o SortedSeq(S \ {m})

\* merge_accumulators called on the partial accumulators by a caller that keeps
\* them: the caller holds its objects as the call left them, and the object the
\* call returned beside them.
CombMergeAccumulators ==
  /\ Partials # {}
  /\ Cardinality(DOMAIN comb_accs \ Partials) < MaxParts
  /\ LET accumulators == SortedSeq(Partials)
         objs == merge_objects(combine_fn, comb_accs, accumulators)
         result == objs[Len(objs)]
         streams == [k \in DOMAIN accumulators |-> comb_hist[accumulators[k]].stream]
     IN IF CallRaised(result)
        THEN /\ comb_out' = RaisedOut(chain_heaps(streams, Len(streams)), result)
             /\ UNCHANGED <<comb_accs, comb_hist>>
        ELSE /\ comb_accs' = objs
             /\ comb_hist' = Append(comb_hist,
                                    [stream |-> chain_heaps(streams, Len(streams)),
                                     merged |-> TRUE, parts |-> Len(accumulators)])
             /\ comb_out' = [kind |-> "merge_accumulators",
                             stream |-> chain_heaps(streams, Len(streams)),
                             merged |-> TRUE, value |-> result]
  /\ UNCHANGED <<combine_fn, comb_adds>>
  /\ UNCHANGED <<runner_vars, top_vars, ctr_vars, thr_vars>>

\* Phase 'extract', on the accumulator made last.
CombExtractOnly ==
  /\ comb_accs # <<>>
  /\ LET i == Len(comb_accs) IN
       comb_out' = [kind |-> "extract", stream |-> comb_hist[i].stream,
                    merged |-> comb_hist[i].merged,
                    value |-> extract_only(combine_fn, comb_accs[i])]
  /\ UNCHANGED <<combine_fn, comb_accs, comb_hist, comb_adds>>
  /\ UNCHANGED <<runner_vars, top_vars, ctr_vars, thr_vars>>

\* Phase 'all', on the input the accumulator made last was built from.
CombFullCombine ==
  /\ comb_accs # <<>>
  /\ LET i == Len(comb_accs)
         elements == comb_hist[i].stream IN
       comb_out' = [kind |-> "all", stream |-> elements, merged |-> comb_hist[i].merged,
                    value |-> full_combine(combine_fn, elements)]
  /\ UNCHANGED <<combine_fn, comb_accs, comb_hist, comb_adds>>
  /\ UNCHANGED <<runner_vars, top_vars, ctr_vars, thr_vars>>

\* ------------------------------------------------------------------ the counter registry
\* Counter.MAX, a kind Counter.__init__ refuses.
MAX == 2
\* The names the callers use. A step label and an aggregator name are free
\* text and may hold a '-'.
CounterNames == {"c", "user-s-n"}
StepNames == {"s", "s-a"}
AggregatorNames == {"n", "a-n"}
Aggregators == {[name |-> "n", aggregation_kind |-> SUM],
                [name |-> "n", aggregation_kind |-> MEAN],
                [name |-> "a-n", aggregation_kind |-> SUM]}
\* An aggregator of a kind Counter.__init__ refuses.
RefusedAggregators == {[name |-> "n", aggregation_kind |-> MAX]}
Deltas == {-6, 7}

\* The outcome of a call: the exception it raised, or the value it returned.
Returned(v) == [raised |-> "none", none |-> FALSE, value |-> v]
ReturnedNone == [raised |-> "none", none |-> TRUE, value |-> <<>>]
Failed(e) == [raised |-> e, none |-> FALSE, value |-> <<>>]
\* A reference to the counter object registered under name, and whether the
\* call constructed it.
Ref(name, created) == [ref |-> name, created |-> created]

\* A faulty check that lets every kind pass.
get_counter_raises_never(cs, name, aggregation_kind) == FALSE
\* CounterFactory.get_counter raises: the kind of the registered counter is
\* another one, or Counter.__init__ refuses the kind of a new counter.
get_counter_raises(cs, name, aggregation_kind) ==
  IF name \in DOMAIN cs THEN cs[name].aggregation_kind # aggregation_kind
  ELSE aggregation_kind \notin {SUM, MEAN}
\* A faulty get_counter that registers a new counter at every call.
get_counter_fresh(cs, name, aggregation_kind) ==
  [k \in DOMAIN cs \cup {name} |->
     IF k = name THEN Counter(name, aggregation_kind, FALSE) ELSE cs[k]]
\* CounterFactory.get_counter: the registry after a call that does not raise.
get_counter(cs, name, aggregation_kind) ==
  IF name \in DOMAIN cs THEN cs
  ELSE [k \in DOMAIN cs \cup {name} |->
          IF k = name THEN Counter(name, aggregation_kind, FALSE) ELSE cs[k]]
\* CounterFactory.get_aggregator_counter raises: the registered counter is no
\* AggregatorCounter, or is one of another kind, or Counter.__init__ refuses the
\* kind of a new counter.
get_aggregator_counter_raises(cs, step_name, aggregator) ==
  LET name == AggregatorCounterName(step_name, aggregator.name) IN
  IF name \in DOMAIN cs
  THEN ~cs[name].aggregator \/ cs[name].aggregation_kind # aggregator.aggregation_kind
  ELSE aggregator.aggregation_kind \notin {SUM, MEAN}

\* A faulty value that gives 0.0 for a MEAN counter that was never updated.
value_zero(c) ==
  IF c.aggregation_kind = SUM THEN Returned(PyInt(total(c)))
  ELSE IF c.elements = 0 THEN Returned(py_truediv(PyFloat(0, 0), 1))
  ELSE Returned(py_truediv(PyFloat(0, total(c)), c.elements))
\* Counter.value: the total of a SUM counter, float(total) / elements of a MEAN
\* counter.
value(c) ==
  IF c.aggregation_kind = SUM THEN Returned(PyInt(total(c)))
  ELSE IF c.aggregation_kind = MEAN
  THEN IF c.elements = 0 THEN Failed("ZeroDivisionError")
       ELSE Returned(py_truediv(PyFloat(0, total(c)), c.elements))
  ELSE Failed("TypeError")

\* str.startswith and str.endswith.
startswith(str, prefix) ==
  Len(str) >= Len(prefix) /\ SubSeq(str, 1, Len(prefix)) = prefix
endswith(str, suffix) ==
  Len(str) >= Len(suffix) /\ SubSeq(str, Len(str) - Len(suffix) + 1, Len(str)) = suffix

\* The argument of get_aggregator_values: an Aggregator object or a string.
AsObject(aggregator) ==
  [basestring |-> FALSE, name |-> aggregator.name,
   aggregation_kind |-> aggregator.aggregation_kind]
AsString(name) == [basestring |-> TRUE, name |-> name, aggregation_kind |-> 0]
\* get_aggregator_values with value_extractor = counter.value(): the return is
\* inside the branch taken for an Aggregator object, so a string falls off the
\* end of the function and gives None; an extractor that raises ends the call.
get_aggregator_values(aggregator_or_name, counter_dict) ==
  LET name == aggregator_or_name.name
      matching == {n \in DOMAIN counter_dict :
                     startswith(n, USER_COUNTER_PREFIX) /\ endswith(n, "-" \o name)}
  IN IF ~aggregator_or_name.basestring
     THEN IF \E n \in matching : value(counter_dict[n]).raised # "none"
          THEN Failed(value(counter_dict[CHOOSE n \in matching :
                                           value(counter_dict[n]).raised # "none"]).raised)
          ELSE Returned([n \in matching |-> value(counter_dict[n]).value])
     ELSE ReturnedNone

runner_rest == <<pipeline, cache, element_counts, sink, reads, dofn_log, state, error,
                 walk_pos, runs, evaluated, io_log, cache_writes>>
NoneGiven == [sum |-> 0, calls |-> 0]
Given(g, cs) == [k \in DOMAIN cs |-> IF k \in DOMAIN g THEN g[k] ELSE NoneGiven]

CtrGetCounter ==
  /\ \E name \in CounterNames, kind \in {SUM, MEAN, MAX} :
       /\ name \in DOMAIN counters \/ Cardinality(DOMAIN counters) < MaxCounters
       /\ IF get_counter_raises(counters, name, kind)
          THEN /\ ctr_call' = [op |-> "get_counter", name |-> name, kind |-> kind,
                               result |-> Failed("AssertionError")]
               /\ UNCHANGED <<counters, ctr_given>>
          ELSE /\ counters' = get_counter(counters, name, kind)
               /\ ctr_call' = [op |-> "get_counter", name |-> name, kind |-> kind,
                               result |-> Returned(Ref(name, name \notin DOMAIN counters))]
               /\ ctr_given' = Given(ctr_given, counters')
  /\ UNCHANGED ctr_refs
  /\ UNCHANGED <<runner_rest, top_vars, comb_vars, thr_vars, overflowcheck>>

CtrGetAggregatorCounter ==
  /\ \E step_name \in StepNames, aggregator \in Aggregators \cup RefusedAggregators :
       LET name == AggregatorCounterName(step_name, aggregator.name) IN
       /\ name \in DOMAIN counters \/ Cardinality(DOMAIN counters) < MaxCounters
       /\ IF get_aggregator_counter_raises(counters, step_name, aggregator)
          THEN /\ ctr_call' = [op |-> "get_aggregator_counter", name |-> name,
                               kind |-> aggregator.aggregation_kind,
                               result |-> Failed("AssertionError")]
               /\ UNCHANGED <<counters, ctr_given, ctr_refs>>
          ELSE /\ counters' = get_aggregator_counter(counters, step_name, aggregator)
               /\ ctr_call' = [op |-> "get_aggregator_counter", name |-> name,
                               kind |-> aggregator.aggregation_kind,
                               result |-> Returned(Ref(name, name \notin DOMAIN counters))]
               /\ ctr_given' = Given(ctr_given, counters')
               /\ ctr_refs' = ctr_refs \cup {[step_name |-> step_name,
                                              aggregator |-> aggregator.name,
                                              ref |-> name]}
  /\ UNCHANGED <<runner_rest, top_vars, comb_vars, thr_vars, overflowcheck>>

\* How many update calls the counters named in names have had.
RECURSIVE Updates(_, _)
Updates(cs, names) ==
  IF names = {} THEN 0
  ELSE LET k == CHOOSE x \in names : TRUE IN cs[k].elements + Updates(cs, names \ {k})

\* update(delta) on a counter a caller holds.
CtrUpdate ==
  /\ \E name \in DOMAIN counters, delta \in Deltas :
       /\ Updates(counters, DOMAIN counters) < MaxUpdates
       /\ counters' = [counters EXCEPT ![name] = IF overflowcheck THEN update_long(@, delta)
                                                  ELSE update(@, delta)]
       /\ ctr_given' = [ctr_given EXCEPT ![name] = [sum |-> @.sum + delta,
                                                    calls |-> @.calls + 1]]
       /\ ctr_call' = [op |-> "update", name |-> name, kind |-> delta,
                       result |-> ReturnedNone]
  /\ UNCHANGED ctr_refs
  /\ UNCHANGED <<runner_rest, top_vars, comb_vars, thr_vars, overflowcheck>>

\* value() on a counter a caller holds.
CtrValue ==
  /\ \E name \in DOMAIN counters :
       ctr_call' = [op |-> "value", name |-> name,
                    kind |-> counters[name].aggregation_kind,
                    result |-> value(counters[name])]
  /\ UNCHANGED <<counters, ctr_refs, ctr_given>>
  /\ UNCHANGED <<runner_rest, top_vars, comb_vars, thr_vars, overflowcheck>>

\* CounterFactory.get_aggregator_values, which DirectPipelineResult.aggregated_values
\* forwards to.
CtrGetAggregatorValues ==
  /\ \E arg \in {AsObject(a) : a \in Aggregators} \cup {AsString(a) : a \in AggregatorNames} :
       ctr_call' = [op |-> "get_aggregator_values", name |-> arg.name, kind |-> arg,
                    result |-> get_aggregator_values(arg, counters)]
  /\ UNCHANGED <<counters, ctr_refs, ctr_given>>
  /\ UNCHANGED <<runner_rest, top_vars, comb_vars, thr_vars, overflowcheck>>

\* ------------------------------------------------------------------ threads on one factory
\* Threads that share one CounterFactory and the counters it hands out. A step is
\* what runs between two points where the interpreter may switch threads: a
\* statement under the lock, the load or the store of an attribute in
\* Counter.update, which takes no lock, or the load of an attribute in
\* Counter.value, which get_aggregator_values calls while update goes on.
Threads == 1..MaxThreads
ThreadKinds == {SUM, MEAN}
ThreadAggregators == {[name |-> "n", aggregation_kind |-> MEAN]}
ThreadDeltas == {1, 7}
LockedCalls ==
  {[op |-> "get_counter", name |-> n, kind |-> k] : n \in CounterNames, k \in ThreadKinds}
  \cup {[op |-> "get_aggregator_counter", name |-> AggregatorCounterName("s", a.name),
         kind |-> a.aggregation_kind] : a \in ThreadAggregators}
  \cup {[op |-> "get_counters", name |-> "", kind |-> 0]}
  \cup {[op |-> "get_aggregator_values", name |-> a.name, kind |-> a.aggregation_kind] :
          a \in ThreadAggregators}

\* The attributes value() has loaded from a counter so far.
NoLoads == [c_total |-> 0, py_total |-> 0, elements |-> 0]
ThreadIdle == [pc |-> "idle", op |-> "none", name |-> "", kind |-> 0, counter |-> 0,
               delta |-> 0, tmp |-> 0, loaded |-> NoLoads, result |-> <<>>]
NoThreadHist == [calls |-> 0, updates |-> 0, returned |-> {}, collections |-> {},
           given |-> <<>>, raised |-> {}, aggregated |-> {}]

\* A faulty lock that lets a thread in while another one holds it.
acquire_enabled_always(l) == TRUE
\* threading.Lock: acquire blocks until the lock is free.
acquire_enabled(l) == l = 0
\* A faulty with statement that keeps the lock when its body raises.
exit_lock_leaking(l, raised) == IF raised THEN l ELSE 0
\* The with statement's __exit__ releases the lock, whether or not the body raised.
exit_lock(l, raised) == 0

\* A faulty values() that returns a view of the dict.
values_view(counter_dict) == [live |-> TRUE, items |-> {}]
\* dict.values() in Python 2: a new list of the values the dict holds now.
values(counter_dict) == [live |-> FALSE, items |-> Range(counter_dict)]
\* What a caller that iterates over a returned collection sees.
Contents(collection) == IF collection.live THEN Range(registry) ELSE collection.items

\* A faulty attribute store that does not take place.
store_dropping(c, field, v) == c
\* self.<field> = v.
store(c, field, v) == [c EXCEPT ![field] = v]

\* The threads that are inside update() on counter object id.
Updating(id) == {t \in Threads : threads[t].op = "update" /\ threads[t].counter = id}

\* A call of get_counter, get_aggregator_counter, get_counters or
\* get_aggregator_values enters its with block.
ThAcquire(t) ==
  /\ threads[t].pc = "idle"
  /\ th_hist.calls < MaxThreadCalls
  /\ acquire_enabled(lock)
  /\ \E call \in LockedCalls :
       threads' = [threads EXCEPT ![t] = [ThreadIdle EXCEPT !.pc = "locked", !.op = call.op,
                                                            !.name = call.name,
                                                            !.kind = call.kind]]
  /\ lock' = t
  /\ th_hist' = [th_hist EXCEPT !.calls = @ + 1]
  /\ UNCHANGED <<registry, objects>>
  /\ UNCHANGED <<runner_vars, top_vars, comb_vars, ctr_vars>>

\* counter = self.counters.get(name, None); 0 stands for None.
ThLookup(t) ==
  /\ threads[t].pc = "locked"
  /\ threads[t].op \in {"get_counter", "get_aggregator_counter"}
  /\ threads' = [threads EXCEPT ![t].pc = "found",
                                ![t].counter = IF threads[t].name \in DOMAIN registry
                                               THEN registry[threads[t].name] ELSE 0]
  /\ UNCHANGED <<lock, registry, objects, th_hist>>
  /\ UNCHANGED <<runner_vars, top_vars, comb_vars, ctr_vars>>

\* The rest of the with block of get_counter (is_aggregator false) and of
\* get_aggregator_counter (true): the assertions on a counter that was found, or
\* the construction and registration of a new one, then the return.
GetOrCreate(t, is_aggregator) ==
  LET th == threads[t]
      raises == IF th.counter # 0
                THEN \/ is_aggregator /\ ~objects[th.counter].aggregator
                     \/ objects[th.counter].aggregation_kind # th.kind
                ELSE th.kind \notin {SUM, MEAN}
      id == IF th.counter # 0 THEN th.counter ELSE Len(objects) + 1
  IN /\ th.pc = "found"
     /\ IF raises
        THEN /\ th_hist' = [th_hist EXCEPT !.raised = @ \cup {[op |-> th.op,
                                                               e |-> "AssertionError"]}]
             /\ UNCHANGED <<registry, objects>>
        ELSE /\ IF th.counter # 0 THEN UNCHANGED <<registry, objects>>
                ELSE /\ objects' = Append(objects, Counter(th.name, th.kind, is_aggregator))
                     /\ registry' = [n \in DOMAIN registry \cup {th.name} |->
                                       IF n = th.name THEN id ELSE registry[n]]
             /\ th_hist' = [th_hist EXCEPT
                              !.returned = @ \cup {[thread |-> t, name |-> th.name,
                                                    kind |-> th.kind, id |-> id]},
                              !.given = IF th.counter # 0 THEN @
                                        ELSE Append(@, [sum |-> 0, calls |-> 0,
                                                        overlapped |-> FALSE])]
     /\ lock' = exit_lock(lock, raises)
     /\ threads' = [threads EXCEPT ![t] = ThreadIdle]
     /\ UNCHANGED <<runner_vars, top_vars, comb_vars, ctr_vars>>
ThGetCounter(t) == threads[t].op = "get_counter" /\ GetOrCreate(t, FALSE)
ThGetAggregatorCounter(t) ==
  threads[t].op = "get_aggregator_counter" /\ GetOrCreate(t, TRUE)

\* get_counters: return self.counters.values() under the lock.
ThGetCounters(t) ==
  /\ threads[t].pc = "locked"
  /\ threads[t].op = "get_counters"
  /\ th_hist' = [th_hist EXCEPT !.collections = @ \cup {[result |-> values(registry),
                                                         at_call |-> Range(registry)]}]
  /\ lock' = exit_lock(lock, FALSE)
  /\ threads' = [threads EXCEPT ![t] = ThreadIdle]
  /\ UNCHANGED <<registry, objects>>
  /\ UNCHANGED <<runner_vars, top_vars, comb_vars, ctr_vars>>

\* CounterFactory.get_aggregator_values: the dict comprehension of the module
\* function under the lock, between two loads of value(). It puts the value of
\* the counter it was on into the dict, or leaves with the exception value()
\* raised; then it calls value() on the next counter of self.counters whose name
\* matches (the order of iteritems), or returns the dict when there is none left.
\* The with statement releases the lock on either exit.
ThGetAggregatorValues(t) ==
  LET th == threads[t]
      n_c == objects[th.counter].name
      v == value([aggregation_kind |-> objects[th.counter].aggregation_kind,
                  c_total |-> th.loaded.c_total, py_total |-> th.loaded.py_total,
                  elements |-> th.loaded.elements])
      raises == th.pc = "value_return" /\ v.raised # "none"
      result == IF th.pc = "value_return" /\ ~raises
                THEN [n \in DOMAIN th.result \cup {n_c} |->
                        IF n = n_c THEN v.value ELSE th.result[n]]
                ELSE th.result
      todo == {n \in DOMAIN registry : /\ startswith(n, USER_COUNTER_PREFIX)
                                       /\ endswith(n, "-" \o th.name)
                                       /\ n \notin DOMAIN result}
  IN /\ th.op = "get_aggregator_values"
     /\ th.pc \in {"locked", "value_return"}
     /\ IF raises
        THEN /\ th_hist' = [th_hist EXCEPT !.raised = @ \cup {[op |-> th.op,
                                                               e |-> v.raised]}]
             /\ lock' = exit_lock(lock, TRUE)
             /\ threads' = [threads EXCEPT ![t] = ThreadIdle]
        ELSE IF todo = {}
        THEN /\ th_hist' = [th_hist EXCEPT !.aggregated = @ \cup {result}]
             /\ lock' = exit_lock(lock, FALSE)
             /\ threads' = [threads EXCEPT ![t] = ThreadIdle]
        ELSE /\ \E n \in todo :
                  threads' = [threads EXCEPT
                    ![t].counter = registry[n],
                    ![t].loaded = NoLoads,
                    ![t].result = result,
                    ![t].pc = IF objects[registry[n]].aggregation_kind \in {SUM, MEAN}
                              THEN "value_c_total" ELSE "value_return"]
             /\ UNCHANGED <<lock, th_hist>>
     /\ UNCHANGED <<registry, objects>>
     /\ UNCHANGED <<runner_vars, top_vars, comb_vars, ctr_vars>>

\* Counter.value() inside get_aggregator_values, one load at a time: self.c_total
\* and self.py_total of self.total, and for a MEAN counter self.elements. update
\* of another thread takes no lock and may store between two of these loads.
ThValue(t) ==
  /\ threads[t].pc \in {"value_c_total", "value_py_total", "value_elements"}
  /\ LET th == threads[t]
         c == objects[th.counter]
     IN threads' =
          CASE th.pc = "value_c_total" ->
                 [threads EXCEPT ![t].loaded.c_total = c.c_total,
                                 ![t].pc = "value_py_total"]
            [] th.pc = "value_py_total" ->
                 [threads EXCEPT ![t].loaded.py_total = c.py_total,
                                 ![t].pc = IF c.aggregation_kind = MEAN
                                           THEN "value_elements" ELSE "value_return"]
            [] th.pc = "value_elements" ->
                 [threads EXCEPT ![t].loaded.elements = c.elements,
                                 ![t].pc = "value_return"]
  /\ UNCHANGED <<lock, registry, objects, th_hist>>
  /\ UNCHANGED <<runner_vars, top_vars, comb_vars, ctr_vars>>

\* update(count) on a counter the thread got from the factory, up to the first
\* point where another thread may run: _update_small adds the delta to the
\* c_total it read; were the addition to raise OverflowError, update would go on
\* to self.py_total += count.
ThUpdate(t) ==
  /\ threads[t].pc = "idle"
  /\ th_hist.calls < MaxThreadCalls
  /\ th_hist.updates < MaxUpdates
  /\ \E id \in DOMAIN objects, delta \in ThreadDeltas :
       /\ threads' = [threads EXCEPT ![t] =
            [ThreadIdle EXCEPT !.op = "update", !.counter = id, !.delta = delta,
                               !.pc = IF Overflows(objects[id], delta)
                                      THEN "load_py_total" ELSE "store_c_total",
                               !.tmp = IF Overflows(objects[id], delta) THEN 0
                                       ELSE objects[id].c_total + delta]]
       /\ th_hist' = [th_hist EXCEPT !.calls = @ + 1, !.updates = @ + 1,
                                     !.given[id] = [sum |-> @.sum + delta,
                                                    calls |-> @.calls + 1,
                                                    overlapped |-> @.overlapped
                                                                     \/ Updating(id) # {}]]
  /\ UNCHANGED <<lock, registry, objects>>
  /\ UNCHANGED <<runner_vars, top_vars, comb_vars, ctr_vars>>

\* The load half of self.py_total += count and of self.elements += 1.
ThLoad(t) ==
  /\ threads[t].pc \in {"load_py_total", "load_elements"}
  /\ LET c == objects[threads[t].counter] IN
       threads' = IF threads[t].pc = "load_py_total"
                  THEN [threads EXCEPT ![t].tmp = c.py_total + threads[t].delta,
                                       ![t].pc = "store_py_total"]
                  ELSE [threads EXCEPT ![t].tmp = c.elements + 1,
                                       ![t].pc = "store_elements"]
  /\ UNCHANGED <<lock, registry, objects, th_hist>>
  /\ UNCHANGED <<runner_vars, top_vars, comb_vars, ctr_vars>>

\* The store of self.c_total = new_total, and the store half of the two +=.
ThStore(t) ==
  /\ threads[t].pc \in {"store_c_total", "store_py_total", "store_elements"}
  /\ LET th == threads[t]
         field == CASE th.pc = "store_c_total" -> "c_total"
                    [] th.pc = "store_py_total" -> "py_total"
                    [] th.pc = "store_elements" -> "elements"
     IN /\ objects' = [objects EXCEPT ![th.counter] = store(@, field, th.tmp)]
        /\ threads' = IF th.pc = "store_elements" THEN [threads EXCEPT ![t] = ThreadIdle]
                      ELSE [threads EXCEPT ![t].pc = "load_elements", ![t].tmp = 0]
  /\ UNCHANGED <<lock, registry, th_hist>>
  /\ UNCHANGED <<runner_vars, top_vars, comb_vars, ctr_vars>>

ThreadsIdle ==
  /\ lock = 0
  /\ threads = [t \in Threads |-> ThreadIdle]
  /\ registry = [n \in {} |-> 0]
  /\ objects = <<>>
  /\ th_hist = NoThreadHist

\* ------------------------------------------------------------------ specifications
RunnerInit ==
  /\ pipeline \in {p \in [value : SeqsUpTo(CreatePayloads, MaxLen),
                         source : SeqsUpTo(SourcePayloads, MaxSrc),
                         view : Views,
                         fault : {"none"}] :
                     Len(p.value) + Len(p.source) <= MaxElems}
  /\ cache \in InitialCaches
  /\ element_counts = [k \in {} |-> 0]
  /\ counters = NoCounters
  /\ sink = <<>>
  /\ reads = 0
  /\ dofn_log = <<>>
  /\ state = "idle"
  /\ error = "none"
  /\ walk_pos = 1
  /\ runs = 0
  /\ evaluated = {}
  /\ io_log = NoIO
  /\ cache_writes = [k \in {} |-> 0]

\* The same runner on pipelines whose source or sink may fail.
RunnerFaultyInit ==
  /\ pipeline \in [value : SeqsUpTo({Pair("a", "1")}, 1),
                   source : SeqsUpTo(SourcePayloads, MaxSrc),
                   view : {v \in Views : v.kind = "list"},
                   fault : Faults]
  /\ cache = EmptyCache
  /\ element_counts = [k \in {} |-> 0]
  /\ counters = NoCounters
  /\ sink = <<>>
  /\ reads = 0
  /\ dofn_log = <<>>
  /\ state = "idle"
  /\ error = "none"
  /\ walk_pos = 1
  /\ runs = 0
  /\ evaluated = {}
  /\ io_log = NoIO
  /\ cache_writes = [k \in {} |-> 0]

RunnerIdle ==
  /\ pipeline = [value |-> <<>>, source |-> <<>>, fault |-> "none",
                 view |-> [kind |-> "list", has_default |-> FALSE,
                           default_value |-> Scalar("None")]]
  /\ cache = EmptyCache
  /\ element_counts = [k \in {} |-> 0]
  /\ counters = NoCounters
  /\ sink = <<>>
  /\ reads = 0
  /\ dofn_log = <<>>
  /\ state = "idle"
  /\ error = "none"
  /\ walk_pos = 1
  /\ runs = 0
  /\ evaluated = {}
  /\ io_log = NoIO
  /\ cache_writes = [k \in {} |-> 0]

TopIdle ==
  /\ top_n = 0
  /\ top_compare = "lt"
  /\ top_heaps = <<>>
  /\ top_hist = <<>>
  /\ top_adds = 0
  /\ top_out = NoOut

CombIdle ==
  /\ combine_fn = curry_combine_fn(Fn("CountCombineFn"), <<>>)
  /\ comb_accs = <<>>
  /\ comb_hist = <<>>
  /\ comb_adds = 0
  /\ comb_out = NoCombOut

CombInit ==
  /\ combine_fn \in {curry_combine_fn(c.fn, c.args) : c \in Combiners}
  /\ comb_accs = <<>>
  /\ comb_hist = <<>>
  /\ comb_adds = 0
  /\ comb_out = NoCombOut

TopInit ==
  /\ top_n \in 0..MaxK
  /\ top_compare \in Comparators
  /\ top_heaps = <<>>
  /\ top_hist = <<>>
  /\ top_adds = 0
  /\ top_out = NoOut

\* Sample.FixedSizeGlobally(n) and its like make a SampleCombineFn(n).
SampleInit ==
  /\ top_n \in 0..MaxK
  /\ top_compare = "lt_tuple"
  /\ top_heaps = <<>>
  /\ top_hist = <<>>
  /\ top_adds = 0
  /\ top_out = NoOut

CtrIdle ==
  /\ ctr_call = NoCall
  /\ ctr_refs = {}
  /\ ctr_given = [k \in {} |-> NoneGiven]
  /\ overflowcheck = FALSE

\* A registry in either build of the counters module.
CtrInit ==
  /\ ctr_call = NoCall
  /\ ctr_refs = {}
  /\ ctr_given = [k \in {} |-> NoneGiven]
  /\ overflowcheck \in BOOLEAN

Init == RunnerInit /\ TopIdle /\ CombIdle /\ CtrIdle /\ ThreadsIdle

Next ==
  \/ StartRun
  \/ run_Create("create")
  \/ run_Read("read")
  \/ run_GroupByKeyOnly("gbk")
  \/ run_Flatten("flatten")
  \/ run__NativeWrite("write")
  \/ run_CreatePCollectionView("view")
  \/ run_ParDo("pardo")
  \/ Finish
  \/ clear_pvalue

Spec == Init /\ [][Next]_vars

InitFaulty == RunnerFaultyInit /\ TopIdle /\ CombIdle /\ CtrIdle /\ ThreadsIdle

SpecFaulty == InitFaulty /\ [][Next]_vars

InitTop == RunnerIdle /\ TopInit /\ CombIdle /\ CtrIdle /\ ThreadsIdle

NextTop ==
  \/ TopCreate
  \/ TopAddInput
  \/ TopMerge
  \/ TopExtract

SpecTop == InitTop /\ [][NextTop]_vars

InitComb == RunnerIdle /\ TopIdle /\ CombInit /\ CtrIdle /\ ThreadsIdle

NextComb ==
  \/ CombCreate
  \/ CombAddInputs
  \/ CombAddOnly
  \/ CombMergeOnly
  \/ CombExtractOnly
  \/ CombFullCombine

SpecComb == InitComb /\ [][NextComb]_vars

\* Merging by a caller that keeps the partial accumulators, for the combiners
\* whose merge_accumulators builds a mutable or compound result.
MergeInit ==
  /\ combine_fn \in {curry_combine_fn(c.fn, c.args) :
                       c \in {d \in Combiners :
                                d.fn.cls \in {"TopCombineFn", "MeanCombineFn",
                                              "ToListCombineFn", "ToDictCombineFn"}}}
  /\ comb_accs = <<>>
  /\ comb_hist = <<>>
  /\ comb_adds = 0
  /\ comb_out = NoCombOut
InitMerge == RunnerIdle /\ TopIdle /\ MergeInit /\ CtrIdle /\ ThreadsIdle
\* Inputs are added to a partial accumulator only, as a worker does before it
\* hands the accumulator over to be merged.
CombAddInputsPartial == Len(comb_accs) \in Partials /\ CombAddInputs
NextMerge ==
  \/ CombCreate
  \/ CombAddInputsPartial
  \/ CombAddOnly
  \/ CombMergeAccumulators
SpecMerge == InitMerge /\ [][NextMerge]_vars

InitSample == RunnerIdle /\ SampleInit /\ CombIdle /\ CtrIdle /\ ThreadsIdle

NextSample ==
  \/ SampleCreate
  \/ SampleAddInput
  \/ SampleMerge
  \/ SampleExtract

SpecSample == InitSample /\ [][NextSample]_vars

InitCounters == RunnerIdle /\ TopIdle /\ CombIdle /\ CtrInit /\ ThreadsIdle

NextCounters ==
  \/ CtrGetCounter
  \/ CtrGetAggregatorCounter
  \/ CtrUpdate
  \/ CtrValue
  \/ CtrGetAggregatorValues

SpecCounters == InitCounters /\ [][NextCounters]_vars

InitThreads == RunnerIdle /\ TopIdle /\ CombIdle /\ CtrIdle /\ ThreadsIdle
NextThreads ==
  \E t \in Threads :
    \/ ThAcquire(t)
    \/ ThLookup(t)
    \/ ThGetCounter(t)
    \/ ThGetAggregatorCounter(t)
    \/ ThGetCounters(t)
    \/ ThGetAggregatorValues(t)
    \/ ThValue(t)
    \/ ThUpdate(t)
    \/ ThLoad(t)
    \/ ThStore(t)
SpecThreads == InitThreads /\ [][NextThreads]_vars

\* ------------------------------------------------------------------ properties
\* A rule is being invoked on node n: the walk of a run stands at n.
Invoking(n) == state = "running" /\ walk_pos <= Len(TopoOrder) /\ Current = n
InvokingAny == state = "running" /\ walk_pos <= Len(TopoOrder)

\* C1: invoking any evaluation rule on a node whose output is already in the
\* cache changes neither the cache, the debug element counts, the counter
\* registry, nor the number of source reads, sink writes and DoFn calls.
C1_CachedNodeIsNoOp ==
  [][(InvokingAny /\ is_cached(cache, Current))
       => UNCHANGED <<cache, element_counts, counters, sink, reads, dofn_log>>]_vars

\* A second run has invoked all seven rules, Write included, on cached nodes.
C1_Witness ==
  /\ runs = 2
  /\ state = "done"
  /\ "pardo" \in evaluated
  /\ is_cached(cache, "write")
  /\ sink = <<>>

\* C2: once a node has been evaluated, evaluating it again causes no further
\* sink writes, source reads, DoFn calls or debug element count increments.
C2_SecondEvaluationHasNoEffect ==
  [][(InvokingAny /\ Current \in evaluated)
       => UNCHANGED <<sink, reads, dofn_log, element_counts>>]_vars

\* The values of the elements of wvs whose key encodes to ek, in arrival order.
ValuesEncodingTo(wvs, ek) ==
  LET sel == SelectSeq(wvs, LAMBDA wv : encode(wv.value.items[1]) = ek)
  IN [i \in DOMAIN sel |-> sel[i].value.items[2]]
RECURSIVE GroupSizes(_, _)
GroupSizes(groups, i) ==
  IF i = 0 THEN 0 ELSE GroupSizes(groups, i - 1) + Len(groups[i].value.items[2])
ExampleInput == <<Pair("a", "1"), Pair("b", "2"), Pair("a", "3")>>

\* C3: run_GroupByKeyOnly caches exactly one group per distinct encoded key,
\* each the decoded key with all the values that arrived with a key encoding to
\* it, in arrival order; the group sizes sum to the input length; and
\* [(a,1),(b,2),(a,3)] gives exactly (a,[1,3]) and (b,[2]).
C3_GroupsPerEncodedKey ==
  [][(~is_cached(cache, "gbk") /\ is_cached(cache', "gbk")) =>
       LET inp == get_pvalue(cache, "create").items
           out == get_pvalue(cache', "gbk").items
           eks == {encode(inp[i].value.items[1]) : i \in DOMAIN inp}
       IN /\ get_pvalue(cache', "gbk").kind = "pcoll"
          /\ Len(out) = Cardinality(eks)
          /\ \A i \in DOMAIN out :
               /\ out[i].windowed /\ out[i].value.iter /\ Len(out[i].value.items) = 2
               /\ \E ek \in eks :
                    /\ out[i].value.items[1] = decode(ek)
                    /\ out[i].value.items[2] = ValuesEncodingTo(inp, ek)
          /\ \A i, j \in DOMAIN out :
               out[i].value.items[1] = out[j].value.items[1] => i = j
          /\ GroupSizes(out, Len(out)) = Len(inp)
          /\ (Values(inp) = ExampleInput =>
                Range(out) = {WindowedValue(Pair("a", <<"1", "3">>)),
                              WindowedValue(Pair("b", <<"2">>))})]_vars

\* The example input was grouped.
C3_Witness ==
  /\ "gbk" \in evaluated
  /\ pipeline.value = ExampleInput
  /\ get_pvalue(cache, "gbk").items =
       <<WindowedValue(Pair("a", <<"1", "3">>)), WindowedValue(Pair("b", <<"2">>))>>

\* An element that is not a windowed value with a 2-element payload.
Malformed(wv) == ~wv.windowed \/ ~wv.value.iter \/ Len(wv.value.items) # 2

\* C4: when some element of the input of run_GroupByKeyOnly is malformed, the
\* rule fails with a type-check error, caches no output for the node and leaves
\* its debug element count as it was.
C4_MalformedInputFails ==
  [][(/\ Invoking("gbk")
      /\ ~is_cached(cache, "gbk")
      /\ \E i \in DOMAIN get_pvalue(cache, "create").items :
           Malformed(get_pvalue(cache, "create").items[i]))
       => /\ state' = "failed"
          /\ error' = "TypeCheckError"
          /\ ~is_cached(cache', "gbk")
          /\ cache' = cache
          /\ CountOf(element_counts', LabelKey("gbk")) =
               CountOf(element_counts, LabelKey("gbk"))]_vars

\* What does hold for a malformed input: the rule fails, with a TypeCheckError
\* unless the first malformed element is a bare tuple, caches nothing and
\* leaves the count as it was.
MalformedInputAborts ==
  [][(/\ Invoking("gbk")
      /\ ~is_cached(cache, "gbk")
      /\ \E i \in DOMAIN get_pvalue(cache, "create").items :
           Malformed(get_pvalue(cache, "create").items[i]))
       => /\ state' = "failed"
          /\ error' \in {"TypeCheckError", "TypeError"}
          /\ (\A i \in DOMAIN get_pvalue(cache, "create").items :
                get_pvalue(cache, "create").items[i].windowed) => error' = "TypeCheckError"
          /\ cache' = cache
          /\ CountOf(element_counts', LabelKey("gbk")) =
               CountOf(element_counts, LabelKey("gbk"))]_vars
\* The rule failed with a TypeError on a cached input that holds a bare pair.
BareTupleSeen ==
  /\ state = "failed"
  /\ error = "TypeError"
  /\ TopoOrder[walk_pos] = "gbk"

\* The rule failed on an input whose malformed element came after two pairs.
C4_Witness ==
  /\ state = "failed"
  /\ error = "TypeCheckError"
  /\ TopoOrder[walk_pos] = "gbk"
  /\ ~is_cached(cache, "gbk")
  /\ is_cached(cache, "create")
  /\ LET inp == get_pvalue(cache, "create").items
     IN /\ Len(inp) = 3
        /\ ~Malformed(inp[1])
        /\ ~Malformed(inp[2])
        /\ Malformed(inp[3])

\* C5: a singleton view caches the declared default for an empty input with a
\* default, the empty-side-input marker for an empty input without one, and the
\* unwrapped payload of the element of a one-element input.
C5_SingletonView ==
  ("view" \in evaluated /\ pipeline.view.kind = "singleton") =>
    LET inp == get_pvalue(cache, "read").items
        out == get_pvalue(cache, "view")
    IN /\ (Len(inp) = 0 /\ pipeline.view.has_default)
            => out = OneValue(pipeline.view.default_value)
       /\ (Len(inp) = 0 /\ ~pipeline.view.has_default) => out = EmptySideInput
       /\ (Len(inp) = 1 => out = OneValue(inp[1].value))

\* A singleton view with a default was made from an empty input.
C5_Witness ==
  /\ "view" \in evaluated
  /\ pipeline.view.kind = "singleton"
  /\ pipeline.view.has_default
  /\ get_pvalue(cache, "read").items = <<>>
  /\ get_pvalue(cache, "view") = OneValue(DefaultValue)

\* C6: a singleton view over two or more elements fails with a value error,
\* with or without a default, and nothing is cached for the view node.
C6_SingletonViewOfSeveral ==
  [][(/\ Invoking("view")
      /\ ~is_cached(cache, "view")
      /\ pipeline.view.kind = "singleton"
      /\ Len(get_pvalue(cache, "read").items) >= 2)
       => /\ state' = "failed"
          /\ error' = "ValueError"
          /\ ~is_cached(cache', "view")
          /\ cache' = cache]_vars

\* A singleton view with a default failed on two elements.
C6_Witness ==
  /\ state = "failed"
  /\ error = "ValueError"
  /\ pipeline.view.kind = "singleton"
  /\ pipeline.view.has_default
  /\ Len(get_pvalue(cache, "read").items) >= 2
  /\ ~is_cached(cache, "view")

\* C7: an iterable or list view caches the payloads of the input's windowed
\* values, in the input's order and as many as the input has.
C7_ListView ==
  ("view" \in evaluated /\ pipeline.view.kind \in {"iterable", "list"}) =>
    LET inp == get_pvalue(cache, "read").items
        out == get_pvalue(cache, "view")
    IN /\ out.kind = "list"
       /\ Len(out.items) = Len(inp)
       /\ \A i \in DOMAIN inp : out.items[i] = inp[i].value

\* An iterable view was made from two different elements.
C7_Witness ==
  /\ "view" \in evaluated
  /\ pipeline.view.kind = "iterable"
  /\ Len(get_pvalue(cache, "read").items) = 2
  /\ get_pvalue(cache, "read").items[1] # get_pvalue(cache, "read").items[2]
  /\ Len(get_pvalue(cache, "view").items) = 2

\* C8: run_Flatten caches the concatenation of its inputs' cached outputs in
\* declaration order, each in its own order, a collection listed twice taken
\* twice; the output is as long as the inputs together.
C8_FlattenConcatenates ==
  [][(~is_cached(cache, "flatten") /\ is_cached(cache', "flatten")) =>
       LET a == get_pvalue(cache, "create").items
           b == get_pvalue(cache, "read").items
           out == get_pvalue(cache', "flatten")
       IN /\ Inputs("flatten") = <<"create", "read", "create">>
          /\ out = PColl(a \o b \o a)
          /\ Len(out.items) = 2 * Len(a) + Len(b)]_vars

\* A collection of two different elements was flattened twice, around another.
C8_Witness ==
  /\ "flatten" \in evaluated
  /\ is_cached(cache, "create")
  /\ Len(get_pvalue(cache, "create").items) = 2
  /\ get_pvalue(cache, "create").items[1] # get_pvalue(cache, "create").items[2]
  /\ Len(get_pvalue(cache, "read").items) = 1
  /\ Len(get_pvalue(cache, "flatten").items) = 5

\* C9: every accumulator a Top-K combiner returns from create_accumulator,
\* add_input or merge_accumulators holds at most K items, whatever the comparator.
C9_AtMostK == \A i \in DOMAIN top_heaps : Len(top_heaps[i]) <= top_n

\* Under the comparator that is no order, a merge of two accumulators built from
\* more than K items holds K items.
C9_Witness ==
  /\ top_compare = "true"
  /\ top_n > 0
  /\ \E i \in DOMAIN top_heaps :
       /\ top_hist[i].merged
       /\ Len(top_hist[i].stream) > top_n
       /\ Len(top_heaps[i]) = top_n

\* add_input of every element of a stream, in order, to a fresh accumulator.
RECURSIVE AddAll(_, _, _, _)
AddAll(n, cmp, stream, i) ==
  IF i = 0 THEN create_accumulator
  ELSE add_input(n, cmp, AddAll(n, cmp, stream, i - 1), stream[i])
Occurrences(s, x) == Cardinality({i \in DOMAIN s : s[i] = x})
Min(a, b) == IF a < b THEN a ELSE b

\* out is the n greatest items of stream under cmp, greatest first.
IsTopOf(n, cmp, stream, out) ==
  /\ Len(out) = Min(n, Len(stream))
  /\ \A x \in Range(out) : Occurrences(out, x) <= Occurrences(stream, x)
  /\ \A i \in 1..(Len(out) - 1) : ~HeapItem_lt(cmp, out[i], out[i + 1])
  /\ \A x \in Range(stream) :
       Occurrences(out, x) < Occurrences(stream, x)
         => \A o \in Range(out) : ~HeapItem_lt(cmp, o, x)

\* C10: extract_output of an accumulator built by add_input alone, under a strict
\* weak order, returns the min(K, stream length) greatest items of the stream,
\* greatest first; Top-K(2, a<b) of [5,1,9,3,9] is [9,9], Top-K(2, a>b) is [1,3].
C10_ExtractsKGreatest ==
  /\ (top_out.extracted /\ ~top_out.merged /\ top_compare \in StrictWeakOrders)
       => IsTopOf(top_n, top_compare, top_out.stream, top_out.items)
  /\ extract_output("lt", AddAll(2, "lt", <<5, 1, 9, 3, 9>>, 5)) = <<9, 9>>
  /\ extract_output("gt", AddAll(2, "gt", <<5, 1, 9, 3, 9>>, 5)) = <<1, 3>>

\* The two greatest of a stream with a tie were extracted.
C10_Witness ==
  /\ top_out.extracted
  /\ ~top_out.merged
  /\ top_compare = "lt"
  /\ top_n = 2
  /\ top_out.stream = <<3, 1, 3>>
  /\ top_out.items = <<3, 3>>

\* The comparators under which no two different items tie.
StrictTotalOrders == {"lt", "gt"}
\* Two accumulators retain the same items, each as many times.
SameItems(h1, h2) == \A x \in Elements : Occurrences(h1, x) = Occurrences(h2, x)
\* The step merges accumulators that were each built by add_input alone.
MergesParts ==
  /\ top_heaps # <<>>
  /\ \A i \in DOMAIN top_hist : ~top_hist[i].merged
  /\ Len(top_hist') = 1
  /\ top_hist'[1].merged
\* The stream the parts were cut from, and the accumulator built from all of it.
FullStream == chain_heaps([i \in DOMAIN top_hist |-> top_hist[i].stream], Len(top_hist))
WholeHeap == AddAll(top_n, top_compare, FullStream, Len(FullStream))
MergeEqualsWhole ==
  /\ SameItems(top_heaps'[1], WholeHeap)
  /\ extract_output(top_compare, top_heaps'[1]) = extract_output(top_compare, WholeHeap)

\* C11 (as stated): merging, in any order, the Top-K accumulators built from the
\* consecutive parts of a stream retains the same items and extracts the same
\* output as the accumulator built from the whole stream, for every comparator
\* that is a strict weak order (different items may tie).
C11_MergeEqualsWholeWithTies ==
  [][(MergesParts /\ top_compare \in StrictWeakOrders) => MergeEqualsWhole]_vars

\* C11 (amended): the same, for a comparator that is a strict total order on the
\* items, so that no two different items tie.
C11_MergeEqualsWhole ==
  [][(MergesParts /\ top_compare \in StrictTotalOrders) => MergeEqualsWhole]_vars

\* Two parts of a stream longer than K were merged under a<b, the second part
\* first, and the merge dropped an item.
C11_Witness ==
  /\ top_compare = "lt"
  /\ top_n = 2
  /\ Len(top_hist) = 1
  /\ top_hist[1].merged
  /\ top_hist[1].parts = 2
  /\ top_hist[1].stream = <<3, 2, 1>>
  /\ SameItems(top_heaps[1], <<2, 3>>)

\* The combiner in use is an uncurried combiner of class cls.
Using(cls) == combine_fn.fn.cls = cls /\ ~combine_fn.curried

\* C12: a Mean accumulator built by adding a list of numbers is (sum of the list,
\* length of the list); extract_output gives the sum divided by the count when
\* the count is positive and NaN when it is 0, never an exception; over [] it
\* gives NaN and over [2, 4, 6] it gives 4.0.
C12_MeanOfList ==
  /\ Using("MeanCombineFn") =>
       /\ \A i \in DOMAIN comb_accs :
            ~comb_hist[i].merged =>
              LET xs == comb_hist[i].stream
              IN comb_accs[i] = <<py_sum(xs, Len(xs)), Len(xs)>>
       /\ (comb_out.kind = "extract" /\ ~comb_out.merged) =>
            LET xs == comb_out.stream
            IN /\ comb_out.value \in [nan : BOOLEAN, big : Int, small : Int, den : Nat \ {0}]
               /\ comb_out.value = IF Len(xs) = 0 THEN NaN
                                   ELSE py_truediv(py_sum(xs, Len(xs)), Len(xs))
  /\ Mean_extract_output(CombineFn_add_inputs("MeanCombineFn", Mean_create_accumulator,
                                              <<>>, 0)) = NaN
  /\ Mean_extract_output(CombineFn_add_inputs("MeanCombineFn", Mean_create_accumulator,
                                              <<PyInt(2), PyInt(4), PyInt(6)>>, 3))
       = [nan |-> FALSE, big |-> 0, small |-> 4, den |-> 1]

\* What does hold: extract_output raises OverflowError exactly when the count is
\* positive and the sum is a long beyond the doubles, and else gives the
\* quotient, or NaN for the count 0.
MeanRaisesBeyondDoubles ==
  (Using("MeanCombineFn") /\ comb_out.kind = "extract" /\ ~comb_out.merged) =>
    LET xs == comb_out.stream
        sum_ == py_sum(xs, Len(xs))
    IN IF Len(xs) > 0 /\ ~sum_.float /\ sum_.huge # 0
       THEN comb_out.value = OverflowError
       ELSE /\ comb_out.value \in [nan : BOOLEAN, big : Int, small : Int, den : Nat \ {0}]
            /\ comb_out.value = IF Len(xs) = 0 THEN NaN ELSE py_truediv(sum_, Len(xs))
\* extract_output raised on the accumulator of one long beyond the doubles.
OverflowSeen ==
  /\ Using("MeanCombineFn")
  /\ comb_out.kind = "extract"
  /\ comb_out.stream = <<PyLong(1, 0)>>
  /\ comb_out.value = OverflowError

\* The mean of an int and two floats whose sum is rounded was extracted.
C12_Witness ==
  /\ Using("MeanCombineFn")
  /\ comb_out.kind = "extract"
  /\ ~comb_out.merged
  /\ comb_out.stream = <<PyInt(2), PyFloat(1, 0), PyFloat(0, 1)>>
  /\ comb_out.value = [nan |-> FALSE, big |-> 1, small |-> 4, den |-> 3]

\* The step merges accumulators that were each built by adding inputs alone.
CombMergesParts ==
  /\ comb_accs # <<>>
  /\ \A i \in DOMAIN comb_hist : ~comb_hist[i].merged
  /\ Len(comb_hist') = 1
  /\ comb_hist'[1].merged
\* The list the parts were cut from, and whether the parts were merged in its order.
CombFullStream ==
  chain_heaps([i \in DOMAIN comb_hist |-> comb_hist[i].stream], Len(comb_hist))
MergedInOrder == comb_hist'[1].stream = CombFullStream
AllInts(xs) == \A i \in DOMAIN xs : ~xs[i].float
\* Extracting the merged accumulator gives what extracting the accumulator built
\* from the whole list gives, and the merged accumulator is the component-wise sum
\* of the accumulators in the order they were given.
MeanMergeEqualsWhole ==
  /\ Mean_extract_output(comb_accs'[1])
       = Mean_extract_output(CombineFn_add_inputs("MeanCombineFn", Mean_create_accumulator,
                                                  CombFullStream, Len(CombFullStream)))
  /\ \E order \in Perms(DOMAIN comb_accs) :
       /\ comb_accs'[1][1] = py_sum([k \in DOMAIN order |-> comb_accs[order[k]][1]],
                                    Len(order))
       /\ comb_accs'[1][2] = int_sum([k \in DOMAIN order |-> comb_accs[order[k]][2]],
                                     Len(order))

\* C13 (as stated): for any split of a list of numbers into partial lists, merging
\* the partial Mean accumulators in the order of the list and extracting gives what
\* extracting the accumulator built from the whole list gives, and the merge
\* returns the component-wise sums.
C13_MeanMergeAnyNumbers ==
  [][(Using("MeanCombineFn") /\ CombMergesParts /\ MergedInOrder)
       => MeanMergeEqualsWhole]_vars

\* C13 (amended): the same for a list of ints, whose sums are exact, in any order
\* of the partial accumulators.
C13_MeanMergeOfInts ==
  [][(Using("MeanCombineFn") /\ CombMergesParts /\ AllInts(CombFullStream))
       => MeanMergeEqualsWhole]_vars

\* The partial means of [2, 2] and [2**1024] were merged, the second first.
C13_Witness ==
  /\ Using("MeanCombineFn")
  /\ Len(comb_hist) = 1
  /\ comb_hist[1].merged
  /\ comb_hist[1].parts = 2
  /\ comb_hist[1].stream = <<PyLong(1, 0), PyInt(2), PyInt(2)>>
  /\ comb_accs[1] = <<PyLong(1, 4), 3>>

\* C14: a Count accumulator starts at 0, add_inputs adds the length of the batch,
\* merge_accumulators gives the sum of the accumulators and extract_output the
\* accumulator itself, so that however the input is cut into batches and partial
\* accumulators, the count is the number of input elements.
C14_CountIsInputLength ==
  Using("CountCombineFn") =>
    /\ \A i \in DOMAIN comb_accs : comb_accs[i] = Len(comb_hist[i].stream)
    /\ comb_out.kind = "extract" => comb_out.value = Len(comb_out.stream)

\* Three elements, added to two accumulators that were merged, were counted.
C14_Witness ==
  /\ Using("CountCombineFn")
  /\ comb_out.kind = "extract"
  /\ comb_out.merged
  /\ comb_hist[1].parts = 2
  /\ comb_out.stream = <<"x", "y", "x">>
  /\ comb_out.value = 3

\* C15: a ToList accumulator is the list of the elements added to it, in the
\* order they were added, and a merged one is the lists of the accumulators given,
\* one after the other in the order given; the extracted list has every added
\* element exactly as many times as it was added.
C15_ListInOrder ==
  Using("ToListCombineFn") =>
    /\ \A i \in DOMAIN comb_accs : comb_accs[i] = comb_hist[i].stream
    /\ comb_out.kind = "extract" =>
         /\ comb_out.value = comb_out.stream
         /\ \A x \in InputsOf(combine_fn.fn) :
              Occurrences(comb_out.value, x) = Occurrences(comb_out.stream, x)

\* The lists [y, x] and [x] were merged, the second first, and extracted.
C15_Witness ==
  /\ Using("ToListCombineFn")
  /\ comb_out.kind = "extract"
  /\ comb_out.merged
  /\ comb_hist[1].parts = 2
  /\ comb_out.value = <<"x", "y", "x">>

\* The value of the last pair of pairs whose key is k.
LastValue(pairs, k) ==
  LET j == CHOOSE j \in DOMAIN pairs :
             /\ pairs[j][1] = k
             /\ \A later \in DOMAIN pairs : later > j => pairs[later][1] # k
  IN pairs[j][2]

\* C16: a ToDict accumulator has exactly the keys that were added, each with one
\* value: the last one added for the key in the latest of the merged accumulators
\* (in the order given) that holds the key; a key added twice is no error.
C16_LastValuePerKey ==
  Using("ToDictCombineFn") =>
    /\ \A i \in DOMAIN comb_accs :
         LET pairs == comb_hist[i].stream
         IN /\ DOMAIN comb_accs[i] = {pairs[j][1] : j \in DOMAIN pairs}
            /\ \A k \in DOMAIN comb_accs[i] : comb_accs[i][k] = LastValue(pairs, k)
    /\ comb_out.kind = "extract" =>
         /\ DOMAIN comb_out.value = {comb_out.stream[j][1] : j \in DOMAIN comb_out.stream}
         /\ \A k \in DOMAIN comb_out.value :
              comb_out.value[k] = LastValue(comb_out.stream, k)

\* Two accumulators that both hold the key a were merged and extracted; the value
\* of the one given last was kept.
C16_Witness ==
  /\ Using("ToDictCombineFn")
  /\ comb_out.kind = "extract"
  /\ comb_out.merged
  /\ comb_hist[1].parts = 2
  /\ comb_out.stream = <<<<"a", 2>>, <<"b", 1>>, <<"a", 1>>>>
  /\ comb_out.value = ("a" :> 1) @@ ("b" :> 1)

\* The combiner in use is a tuple combiner, of either variant.
UsingTuple == combine_fn.fn.cls \in {"TupleCombineFn", "SingleInputTupleCombineFn"}

\* C17: every accumulator a tuple combiner of N sub-combiners returns from
\* create_accumulator, add_inputs (of any batch, the empty one included) or
\* merge_accumulators has exactly N components, and extract_output returns an
\* N-tuple.
C17_TupleHasNComponents ==
  UsingTuple =>
    /\ \A i \in DOMAIN comb_accs : Len(comb_accs[i]) = Len(combine_fn.fn.combiners)
    /\ comb_out.kind = "extract" => Len(comb_out.value) = Len(combine_fn.fn.combiners)

\* What the sub-combiner of class cls extracts when it is run alone over xs.
Alone(cls, xs) ==
  cls_extract_output(cls, cls_add_inputs(cls, cls_create_accumulator(cls), xs))
\* What the j-th sub-combiner of the tuple combiner in use sees of the input: the
\* j-th components of the input tuples, or with a common input all of it.
SeenBy(j, stream) ==
  IF combine_fn.fn.cls = "TupleCombineFn" THEN [i \in DOMAIN stream |-> stream[i][j]]
  ELSE stream
TupleOfAlone(stream) ==
  [j \in DOMAIN combine_fn.fn.combiners |->
     Alone(combine_fn.fn.combiners[j], SeenBy(j, stream))]

\* C18: what a tuple combiner extracts from an accumulator built by adding inputs,
\* or gives in one full combine, is component by component what each
\* sub-combiner extracts when run alone over what it sees of the input.
C18_TupleEqualsSubCombiners ==
  (UsingTuple /\ comb_out.kind \in {"extract", "all"} /\ ~comb_out.merged)
    => comb_out.value = TupleOfAlone(comb_out.stream)

\* The comparator of the curried TopCombineFn in use, with its argument bound.
CurriedCompare == BoundCompare(combine_fn.fn.compare, combine_fn.args)

\* C19: the methods of the combiner curry_combine_fn returns give, for every
\* accumulator in use and every input, what the wrapped combiner's methods give
\* with the bound arguments appended, so that an accumulator built through it is
\* the wrapped combiner's over the same input; with nothing to bind,
\* curry_combine_fn returns the wrapped combiner itself.
C19_CurriedForwards ==
  /\ combine_fn.curried =>
       /\ combine_fn.args # <<>>
       /\ CurriedFn_create_accumulator(combine_fn) = create_accumulator
       /\ CurriedFn_merge_accumulators(combine_fn, comb_accs)
            = merge_accumulators(combine_fn.fn.n, CurriedCompare, comb_accs)
       /\ \A i \in DOMAIN comb_accs :
            /\ ~comb_hist[i].merged =>
                 comb_accs[i] = AddAll(combine_fn.fn.n, CurriedCompare, comb_hist[i].stream,
                                       Len(comb_hist[i].stream))
            /\ CurriedFn_extract_output(combine_fn, comb_accs[i])
                 = extract_output(CurriedCompare, comb_accs[i])
            /\ \A e \in Elements :
                 /\ CurriedFn_add_input(combine_fn, comb_accs[i], e)
                      = add_input(combine_fn.fn.n, CurriedCompare, comb_accs[i], e)
                 /\ CurriedFn_add_inputs(combine_fn, comb_accs[i], <<e, e>>)
                      = add_input(combine_fn.fn.n, CurriedCompare,
                                  add_input(combine_fn.fn.n, CurriedCompare, comb_accs[i], e),
                                  e)
       /\ comb_out.kind = "all" =>
            comb_out.value = extract_output(CurriedCompare,
                               AddAll(combine_fn.fn.n, CurriedCompare, comb_out.stream,
                                      Len(comb_out.stream)))
  /\ \A c \in Combiners :
       /\ curry_combine_fn(c.fn, <<>>).fn = c.fn
       /\ ~curry_combine_fn(c.fn, <<>>).curried
       /\ curry_combine_fn(c.fn, <<2>>).curried

\* Through a TopCombineFn curried with d = 2, under which 2 and 3 tie, 3 was not
\* taken in place of 2.
C19_Witness ==
  /\ combine_fn.curried
  /\ combine_fn.args = <<2>>
  /\ Len(comb_accs) = 1
  /\ ~comb_hist[1].merged
  /\ comb_hist[1].stream = <<2, 2, 3>>
  /\ comb_accs[1] = <<2, 2>>

\* Every accumulator in use is what phase 'add' gives for the batch it was built from.
PartsFromAddPhase ==
  \A i \in DOMAIN comb_accs : comb_accs[i] = add_only(combine_fn, comb_hist[i].stream)
\* Phase 'extract' on the accumulator phase 'merge' returned gives what phase 'all'
\* gives on whole.
PhasesEqualAll(whole) ==
  extract_only(combine_fn, comb_accs'[1]) = full_combine(combine_fn, whole)

\* C20 (as stated): phase 'add' on each batch of an input, phase 'merge' on the
\* accumulators and phase 'extract' on the result give what phase 'all' gives on
\* the whole input, exactly for Count, Mean and ToDict with the accumulators
\* merged in the order of the batches, and for ToList on the batches concatenated
\* in merge order.
C20_PhasesEqualAllAnyNumbers ==
  [][(CombMergesParts /\ PartsFromAddPhase) =>
       /\ (Using("CountCombineFn") \/ Using("MeanCombineFn") \/ Using("ToDictCombineFn"))
            /\ MergedInOrder => PhasesEqualAll(CombFullStream)
       /\ Using("ToListCombineFn") => PhasesEqualAll(comb_hist'[1].stream)]_vars

\* C20 (amended): the same, with Mean over ints only.
C20_PhasesEqualAll ==
  [][(CombMergesParts /\ PartsFromAddPhase) =>
       /\ (Using("CountCombineFn") \/ Using("ToDictCombineFn")
             \/ (Using("MeanCombineFn") /\ AllInts(CombFullStream)))
            /\ MergedInOrder => PhasesEqualAll(CombFullStream)
       /\ Using("ToListCombineFn") => PhasesEqualAll(comb_hist'[1].stream)]_vars

\* The phases were run on the batches [2] and [2, 2] of ints for a Mean: the
\* merged accumulator was extracted.
C20_Witness ==
  /\ Using("MeanCombineFn")
  /\ comb_out.kind = "extract"
  /\ comb_out.merged
  /\ comb_hist[1].parts = 2
  /\ comb_out.stream = <<PyInt(2), PyInt(2), PyInt(2)>>
  /\ comb_out.value = [nan |-> FALSE, big |-> 0, small |-> 2, den |-> 1]

\* C21: the output extracted from a Sample accumulator of size K, built by any
\* sequence of add_input and merge_accumulators calls, has exactly
\* min(K, number of elements added) items; every item is an element (the random
\* key is stripped), and an element is in the output at most as many times as it
\* was added.
C21_SampleWithoutReplacement ==
  top_out.extracted =>
    /\ Len(top_out.items) = Min(top_n, Len(top_out.stream))
    /\ \A i \in DOMAIN top_out.items :
         /\ top_out.items[i] \in SampleElements
         /\ Occurrences(top_out.items, top_out.items[i])
              <= Occurrences(top_out.stream, top_out.items[i])

\* Two of three added elements were sampled from merged accumulators, and they
\* are the two occurrences of the same element.
C21_Witness ==
  /\ top_compare = "lt_tuple"
  /\ top_out.extracted
  /\ top_out.merged
  /\ top_n = 2
  /\ top_out.stream = <<1, 2, 1>>
  /\ top_out.items = <<1, 1>>

\* C22: a get_counter call for a name that is not registered adds a counter of
\* the asked kind with total 0 and no elements and leaves the other counters as
\* they were; a call for a registered name with the same kind returns the
\* registered counter and changes nothing of it; every counter is registered
\* under its own name, so there is at most one per name.
C22_GetCounterIdempotent ==
  [][ctr_call'.op = "get_counter" =>
       LET name == ctr_call'.name
           kind == ctr_call'.kind
           result == ctr_call'.result
       IN /\ (name \in DOMAIN counters /\ counters[name].aggregation_kind = kind)
               => /\ result = Returned(Ref(name, FALSE))
                  /\ counters' = counters
          /\ (name \notin DOMAIN counters /\ kind \in {SUM, MEAN})
               => /\ result = Returned(Ref(name, TRUE))
                  /\ DOMAIN counters' = DOMAIN counters \cup {name}
                  /\ counters'[name].aggregation_kind = kind
                  /\ total(counters'[name]) = 0
                  /\ counters'[name].elements = 0
                  /\ \A k \in DOMAIN counters : counters'[k] = counters[k]
          /\ \A k \in DOMAIN counters' : counters'[k].name = k]_vars

\* get_counter returned a registered counter that had been updated twice.
C22_Witness ==
  /\ ctr_call.op = "get_counter"
  /\ ctr_call.result = Returned(Ref("c", FALSE))
  /\ counters["c"].aggregation_kind = MEAN
  /\ counters["c"].elements = 2
  /\ total(counters["c"]) = 14

\* C23: get_counter or get_aggregator_counter for a name registered with another
\* aggregation kind raises an AssertionError and leaves the registry as it was.
C23_KindMismatchFails ==
  [][(/\ ctr_call'.op \in {"get_counter", "get_aggregator_counter"}
      /\ ctr_call'.name \in DOMAIN counters
      /\ counters[ctr_call'.name].aggregation_kind # ctr_call'.kind)
       => /\ ctr_call'.result = Failed("AssertionError")
          /\ counters' = counters]_vars

\* get_aggregator_counter asked for a MEAN counter under the name of a SUM
\* counter that had been updated, and failed.
C23_Witness ==
  /\ ctr_call.op = "get_aggregator_counter"
  /\ ctr_call.kind = MEAN
  /\ ctr_call.result = Failed("AssertionError")
  /\ ctr_call.name \in DOMAIN counters
  /\ counters[ctr_call.name].aggregation_kind = SUM
  /\ counters[ctr_call.name].aggregator
  /\ counters[ctr_call.name].elements = 1

\* C24: the total of every counter is the exact sum of the deltas given to its
\* update, in the compiled build overflows of the C long included, and its
\* element count is the number of update calls.
C24_TotalIsExactSum ==
  \A k \in DOMAIN counters :
    /\ total(counters[k]) = ctr_given[k].sum
    /\ counters[k].elements = ctr_given[k].calls

\* The second update overflowed the C long and its delta went to py_total.
C24_Witness ==
  /\ overflowcheck
  /\ "c" \in DOMAIN counters
  /\ counters["c"].c_total = 7
  /\ counters["c"].py_total = 7
  /\ counters["c"].elements = 2
  /\ ctr_given["c"] = [sum |-> 14, calls |-> 2]

\* C25: value() leaves the counters as they were; for a SUM counter it returns
\* the total, for a MEAN counter with updates the total divided by the element
\* count, and for a MEAN counter without updates it raises ZeroDivisionError.
C25_Value ==
  [][ctr_call'.op = "value" =>
       LET c == counters[ctr_call'.name]
           result == ctr_call'.result
       IN /\ counters' = counters
          /\ c.aggregation_kind = SUM => result = Returned(PyInt(total(c)))
          /\ (c.aggregation_kind = MEAN /\ c.elements > 0)
               => /\ result.raised = "none"
                  /\ ~result.none
                  /\ ~result.value.nan
                  /\ result.value.big = 0
                  /\ result.value.den > 0
                  /\ result.value.small * c.elements = total(c) * result.value.den
          /\ (c.aggregation_kind = MEAN /\ c.elements = 0)
               => result = Failed("ZeroDivisionError")]_vars

\* value() of a MEAN counter updated with 7 and -6 returned 0.5.
C25_Witness ==
  /\ ctr_call.op = "value"
  /\ ctr_call.kind = MEAN
  /\ counters[ctr_call.name].elements = 2
  /\ ctr_call.result = Returned([nan |-> FALSE, big |-> 0, small |-> 1, den |-> 2])

\* The steps for which get_aggregator_counter made a counter of the aggregator
\* called name.
StepsOf(name) == {r.step_name : r \in {x \in ctr_refs : x.aggregator = name}}

\* C26: get_aggregator_values(aggregator) returns a mapping whose keys are the
\* names of exactly the steps for which a counter of that aggregator was
\* registered, each with the value of that counter.
C26_ValuesKeyedByStep ==
  (/\ ctr_call.op = "get_aggregator_values"
   /\ ~ctr_call.kind.basestring
   /\ ctr_call.result.raised = "none")
    => /\ ~ctr_call.result.none
       /\ DOMAIN ctr_call.result.value = StepsOf(ctr_call.name)
       /\ \A step \in StepsOf(ctr_call.name) :
            ctr_call.result.value[step] =
              value(counters[AggregatorCounterName(step, ctr_call.name)]).value

\* C27: get_aggregator_values called with the name of an aggregator as a string
\* returns what it returns for the Aggregator object of that name.
C27_NameOrObject ==
  (ctr_call.op = "get_aggregator_values" /\ ctr_call.kind.basestring)
    => \A a \in Aggregators :
         a.name = ctr_call.name =>
           LET by_object == get_aggregator_values(AsObject(a), counters)
           IN /\ ctr_call.result.raised = by_object.raised
              /\ ctr_call.result.none = by_object.none
              /\ ctr_call.result.value = by_object.value

\* C28: get_aggregator_counter registers its counter under
\* user-<step>-<aggregator name>, and two calls have returned the same counter
\* if and only if they had the same step name and the same aggregator name.
C28_OneCounterPerStepAndAggregator ==
  /\ \A r \in ctr_refs :
       /\ r.ref = AggregatorCounterName(r.step_name, r.aggregator)
       /\ r.ref \in DOMAIN counters
  /\ \A a, b \in ctr_refs :
       a.ref = b.ref <=> (a.step_name = b.step_name /\ a.aggregator = b.aggregator)

\* C29: the rule of a Read or a Write enters its reader or writer before the
\* first element is read or written and leaves it exactly once, as its last
\* call on the handle, whether the body ended normally or raised: no handle is
\* open once the rule has ended.
C29_HandleReleased ==
  io_log.rule # "none" =>
    LET events == io_log.events IN
    /\ Len(events) >= 2
    /\ events[1] = "__enter__"
    /\ events[Len(events)] = "__exit__"
    /\ Occurrences(events, "__enter__") = 1
    /\ Occurrences(events, "__exit__") = 1
    /\ \A i \in 2..(Len(events) - 1) : events[i] \in {"next", "Write"}

\* The reader raised after yielding one element, and the run failed.
C29_Witness ==
  /\ state = "failed"
  /\ error = "IOError"
  /\ pipeline.fault = "read"
  /\ io_log = [rule |-> "read", raised |-> TRUE,
               events |-> <<"__enter__", "next", "__exit__">>]

\* C30: when a rule raises, the run fails at that node with the cache, the
\* evaluated nodes and the position of the walk as they were; and a failed run
\* does nothing more: no node is evaluated, no rule is retried, no result with
\* state DONE is returned, and until run is called again nothing is put into the
\* cache and no cached output changes (the owner of the runner may take one out).
C30_FailedRunStops ==
  [][/\ (error = "none" /\ error' # "none")
          => /\ state' = "failed"
             /\ walk_pos' = walk_pos
             /\ cache' = cache
             /\ evaluated' = evaluated
     /\ (state = "failed" /\ runs' = runs)
          => /\ state' = "failed"
             /\ \A k \in DOMAIN cache' : k \in DOMAIN cache /\ cache'[k] = cache[k]
             /\ UNCHANGED <<evaluated, walk_pos, sink, element_counts, counters,
                            reads, dofn_log, error>>]_vars

\* The view raised a value error after Create, Read, GroupByKeyOnly, Flatten and
\* Write had been evaluated; the ParDo was not.
C30_Witness ==
  /\ state = "failed"
  /\ error = "ValueError"
  /\ Current = "view"
  /\ {"create", "read", "gbk", "flatten", "write"} \subseteq evaluated
  /\ is_cached(cache, "flatten")
  /\ ~is_cached(cache, "view")
  /\ "pardo" \notin evaluated

\* C31: run_ParDo calls start once, then process once for each windowed value of
\* the cached input, in input order, then finish once, and every cache_output
\* of the node comes after finish.
C31_StartProcessFinish ==
  IF "pardo" \in evaluated
  THEN LET wvs == get_pvalue(cache, Inputs("pardo")[1]).items
           n == Len(wvs)
       IN /\ Len(dofn_log) > n + 2
          /\ dofn_log[1].call = "start"
          /\ \A i \in 1..n :
               dofn_log[i + 1].call = "process" /\ dofn_log[i + 1].wv = wvs[i]
          /\ dofn_log[n + 2].call = "finish"
          /\ \A i \in (n + 3)..Len(dofn_log) : dofn_log[i].call = "cache_output"
  ELSE dofn_log = <<>>

\* The ParDo processed three elements, the first and the second different.
C31_Witness ==
  /\ "pardo" \in evaluated
  /\ Len(get_pvalue(cache, Inputs("pardo")[1]).items) = 3
  /\ dofn_log[2].call = "process"
  /\ dofn_log[4].call = "process"
  /\ dofn_log[2].wv # dofn_log[3].wv
  /\ dofn_log[5].call = "finish"

\* The elements of wvs for which the DoFn emits on tag, in input order (the
\* DoFn of the pipeline emits the element it was given, or nothing).
Emitted(wvs, side_inputs, tag) ==
  SelectSeq(wvs, LAMBDA wv : /\ DoFnOutputs(wv, side_inputs) # <<>>
                             /\ DoFnOutputs(wv, side_inputs)[1].tag = tag)

\* C32: once run_ParDo has completed, the primary output of the node is in the
\* cache and holds exactly the elements emitted on the default tag, and every
\* declared side output tag is in the cache with exactly the elements emitted
\* on it, an empty collection when there were none.
C32_OutputsCachedPerTag ==
  "pardo" \in evaluated =>
    LET wvs == get_pvalue(cache, Inputs("pardo")[1]).items
        side_inputs == <<get_pvalue(cache, SideInputs("pardo")[1])>>
    IN /\ is_cached(cache, "pardo")
       /\ get_pvalue(cache, "pardo") = PColl(Emitted(wvs, side_inputs, MainTag))
       /\ \A tag \in side_output_tags :
            /\ to_cache_key("pardo", tag) \in DOMAIN cache
            /\ cache[to_cache_key("pardo", tag)] = PColl(Emitted(wvs, side_inputs, tag))

\* Of two input elements the DoFn dropped one and emitted the other on the side
\* output: the primary output is cached empty.
C32_Witness ==
  /\ "pardo" \in evaluated
  /\ Len(get_pvalue(cache, Inputs("pardo")[1]).items) = 2
  /\ get_pvalue(cache, "pardo") = PColl(<<>>)
  /\ Len(cache[to_cache_key("pardo", "scalar")].items) = 1

\* The nodes whose rule keeps the count under the label alone, and the tags a
\* ParDo counts under.
LabelCounted == Nodes \ {"pardo"}
ParDoTags == side_output_tags \cup {MainTag}

\* C36: for every node the debug element count under its label, or under
\* (label, tag) for a ParDo, equals the number of elements the rules have
\* written to the cache for that node and tag.
C36_CountsEqualCacheWrites ==
  /\ \A n \in LabelCounted :
       CountOf(element_counts, LabelKey(n)) = CountOf(cache_writes, to_cache_key(n, MainTag))
  /\ \A t \in ParDoTags :
       CountOf(element_counts, TagKey("pardo", t))
         = CountOf(cache_writes, to_cache_key("pardo", t))

\* The same equality for the rules that count and cache together: Create, Read,
\* GroupByKeyOnly, Flatten and ParDo.
CountsEqualCacheWrites_counting_rules ==
  /\ \A n \in LabelCounted \ {"write", "view"} :
       CountOf(element_counts, LabelKey(n)) = CountOf(cache_writes, to_cache_key(n, MainTag))
  /\ \A t \in ParDoTags :
       CountOf(element_counts, TagKey("pardo", t))
         = CountOf(cache_writes, to_cache_key("pardo", t))

\* A call of merge_accumulators that kept the partial accumulators.
MergeStep == comb_out'.kind = "merge_accumulators"
\* C38: merge_accumulators of Top-K, Mean, ToList and ToDict returns a newly
\* built accumulator and leaves every accumulator it was given as it was, so that
\* merging the same partial accumulators again gives the same result.
C38_MergeLeavesInputsUnchanged ==
  [][MergeStep =>
       /\ Len(comb_accs') = Len(comb_accs) + 1
       /\ comb_out'.value = comb_accs'[Len(comb_accs')]
       /\ \A i \in DOMAIN comb_accs : comb_accs'[i] = comb_accs[i]
       /\ comb_out.kind = "merge_accumulators" => comb_out'.value = comb_out.value]_vars
\* The object a merge returns holds what merge_accumulators computes from the
\* values of the accumulators given.
MergeObjectsReturnMerge ==
  [][MergeStep =>
       LET accumulators == SortedSeq(Partials)
       IN comb_out'.value = CurriedFn_merge_accumulators(combine_fn,
                              [k \in DOMAIN accumulators |-> comb_accs[accumulators[k]]])]_vars
\* Two partial accumulators that each hold something were merged twice in a row,
\* and the result differs from the first of them.
C38_Witness ==
  /\ comb_out.kind = "merge_accumulators"
  /\ Cardinality(DOMAIN comb_accs \ Partials) = 2
  /\ Cardinality(Partials) = 2
  /\ \A i \in Partials : comb_hist[i].stream # <<>>
  /\ comb_out.value # comb_accs[1]
  /\ comb_accs[Len(comb_accs)] = comb_accs[Len(comb_accs) - 1]

\* The counter objects constructed under a name.
ObjectsNamed(name) == {i \in DOMAIN objects : objects[i].name = name}
\* C33: under every interleaving of the threads' calls of get_counter and
\* get_aggregator_counter, all calls for one name return the same counter object,
\* one counter at most is ever constructed for a name, and the registry holds
\* that one under the name.
C33_OneInstancePerName ==
  /\ \A r1, r2 \in th_hist.returned : r1.name = r2.name => r1.id = r2.id
  /\ \A i, j \in DOMAIN objects : objects[i].name = objects[j].name => i = j
  /\ \A n \in DOMAIN registry : ObjectsNamed(n) = {registry[n]}
  /\ \A r \in th_hist.returned : r.name \in DOMAIN registry /\ registry[r.name] = r.id
\* Both threads have asked for the same name and kind and got the same object,
\* and the registry holds a second counter beside it.
C33_Witness ==
  /\ \E r1, r2 \in th_hist.returned :
       r1.thread # r2.thread /\ r1.name = r2.name /\ r1.kind = r2.kind /\ r1.id = r2.id
  /\ Cardinality(DOMAIN registry) = 2

\* No update of counter object id is in progress.
Quiet(id) == Updating(id) = {}
Lost(id) ==
  \/ total(objects[id]) # th_hist.given[id].sum
  \/ objects[id].elements # th_hist.given[id].calls
\* C34: when the updates of a counter never overlap, its total is the sum of the
\* deltas given and its element count the number of update calls, whenever no
\* update of it is in progress.
C34_NoLossWithoutOverlap ==
  \A id \in DOMAIN objects :
    (Quiet(id) /\ ~th_hist.given[id].overlapped) => ~Lost(id)
\* Two threads have updated the same counter at the same time, both updates have
\* returned, and the counter has lost one of them.
C34_Witness ==
  \E id \in DOMAIN objects :
    /\ Quiet(id)
    /\ th_hist.given[id].overlapped
    /\ th_hist.given[id].calls = 2
    /\ Lost(id)
\* Two updates of one counter that did not overlap have both returned.
C34_SerialUpdatesSeen ==
  \E id \in DOMAIN objects :
    Quiet(id) /\ ~th_hist.given[id].overlapped /\ th_hist.given[id].calls = 2

\* C35: a collection get_counters returned holds the counters that were
\* registered when it was called, whatever is registered afterwards.
C35_SnapshotAtCallTime ==
  \A s \in th_hist.collections : Contents(s.result) = s.at_call
\* get_counters returned a collection with a counter in it, and another counter
\* was registered afterwards.
C35_Witness ==
  \E s \in th_hist.collections :
    /\ s.at_call # {}
    /\ Range(registry) # s.at_call

\* C37: the lock is held only by a thread that is inside the with block of
\* get_counter, get_aggregator_counter, get_counters or get_aggregator_values; a
\* call that has returned or raised has released it.
C37_LockReleasedOnEveryExit ==
  /\ lock \in Threads \cup {0}
  /\ \A t \in Threads :
       lock = t <=> threads[t].pc \in {"locked", "found", "value_c_total",
                                       "value_py_total", "value_elements", "value_return"}
\* A call of get_aggregator_values has failed on the value() of a MEAN counter
\* that was never updated, and a later call has acquired the lock.
C37_Witness ==
  /\ \E r \in th_hist.raised : r.op = "get_aggregator_values" /\ r.e = "ZeroDivisionError"
  /\ lock # 0
\* value() is about to divide by the element count 0 it loaded, while an update
\* of another thread has since stored the count 1: the call raises for a counter
\* that has been updated.
C37_StaleLoadSeen ==
  \E t \in Threads :
    /\ threads[t].pc = "value_return"
    /\ objects[threads[t].counter].aggregation_kind = MEAN
    /\ threads[t].loaded.elements = 0
    /\ objects[threads[t].counter].elements = 1
    /\ Quiet(threads[t].counter)
\* A call has failed its kind assertion, and a later call has acquired the lock.
C37_AssertionSeen ==
  /\ \E r \in th_hist.raised : r.e = "AssertionError"
  /\ lock # 0
====
